---- MODULE Spec2Model ----
(***************************************************************************)
(* A model of opensearch-dsl-js: the immutable Query base class, its       *)
(* clone-on-write discipline, and the per-variant constructors, mutators   *)
(* and clone() methods.                                                    *)
(*                                                                         *)
(* JavaScript values are modelled as tagged tuples.  An object is an       *)
(* ORDERED sequence of <<key, value>> pairs, because JavaScript keeps the  *)
(* insertion order of string keys and JSON.stringify prints in that order. *)
(* Numbers are fixed-point with one decimal digit: Num(n) stands for n/10, *)
(* so that the ratios 0.2, 0.5, 1.0 and 1.5 are the integers 2, 5, 10, 15. *)
(***************************************************************************)
EXTENDS Integers, Sequences, FiniteSets, TLC

VARIABLES
    instances,       \* the Query objects the caller holds, by object identity
    queryIdCounter,  \* the module-level counter of core/Query.ts
    created,         \* every id generateId() has handed out, in order
    last,            \* the last call: receiver, method, arguments, outcome
    calls,           \* calls[i] is the call that returned instances[i]
    limit,           \* how many objects the caller builds in this run
    held             \* the references into values that the caller holds

vars == <<instances, queryIdCounter, created, last, calls, limit, held>>

(***************************************************************************)
(* JavaScript values.                                                      *)
(***************************************************************************)
Undef == <<"undefined">>
Null == <<"null">>
Num(n) == <<"number", n>>
Str(s) == <<"string", s>>
Bool(b) == <<"boolean", b>>
Arr(s) == <<"array", s>>
Obj(s) == <<"object", s>>

Tag(v) == v[1]

\* a sequence written as a function, as an explicit tuple
Tuple(f) == f \o <<>>
IsObj(v) == Tag(v) = "object"
IsArr(v) == Tag(v) = "array"

\* typeof v === 'object'
TypeofObject(v) == Tag(v) \in {"object", "array", "null"}

\* the value of an || operand counts as false
Falsy(v) ==
    \/ Tag(v) \in {"undefined", "null"}
    \/ (Tag(v) = "number" /\ v[2] = 0)
    \/ (Tag(v) = "string" /\ v[2] = "")
    \/ (Tag(v) = "boolean" /\ v[2] = FALSE)

\* a || b
OrElse(a, b) == IF Falsy(a) THEN b ELSE a

KeySet(o) == {o[2][i][1] : i \in 1..Len(o[2])}
Has(o, k) == IsObj(o) /\ k \in KeySet(o)

\* o[k], or o?.k: undefined when the key is absent
Get(o, k) ==
    IF Has(o, k)
    THEN LET i == CHOOSE j \in 1..Len(o[2]) : o[2][j][1] = k IN o[2][i][2]
    ELSE Undef

\* { ...o, [k]: v }: an existing key keeps its place, a new key goes last
Put(o, k, v) ==
    IF Has(o, k)
    THEN Obj(Tuple([i \in 1..Len(o[2]) |-> IF o[2][i][1] = k THEN <<k, v>> ELSE o[2][i]]))
    ELSE Obj(Append(o[2], <<k, v>>))

\* { ...a, ...b }
RECURSIVE Spread(_, _)
Spread(a, b) ==
    IF Len(b[2]) = 0 THEN a
    ELSE Spread(Put(a, b[2][1][1], b[2][1][2]), Obj(Tail(b[2])))

\* delete o[k]
Delete(o, k) == Obj(SelectSeq(o[2], LAMBDA e : e[1] # k))

EmptyObj == Obj(<<>>)
\* { [k]: v }
Obj1(k, v) == Obj(<< <<k, v>> >>)

\* Object.entries(o)[0]
FirstEntry(o) == o[2][1]

\* a.length of an array value; x?.length of undefined is undefined (falsy)
Length(a) == IF IsArr(a) THEN Len(a[2]) ELSE 0

\* [...a, ...b] of two arrays
Concat(a, b) == Arr(a[2] \o b[2])

(***************************************************************************)
(* Query._deepClone: scalars are returned as they are, arrays are mapped,  *)
(* objects are rebuilt key by key in enumeration order.                    *)
(***************************************************************************)
RECURSIVE _deepClone(_)
_deepClone(v) ==
    IF ~TypeofObject(v) \/ Tag(v) = "null" THEN v
    ELSE IF IsArr(v) THEN Arr(Tuple([i \in 1..Len(v[2]) |-> _deepClone(v[2][i])]))
    ELSE Obj(Tuple([i \in 1..Len(v[2]) |-> <<v[2][i][1], _deepClone(v[2][i][2])>>]))

(***************************************************************************)
(* JSON.stringify: keys in insertion order, keys whose value is undefined  *)
(* are left out, undefined inside an array prints as null.                 *)
(***************************************************************************)
RECURSIVE Join(_)
Join(parts) ==
    IF Len(parts) = 0 THEN ""
    ELSE IF Len(parts) = 1 THEN parts[1]
    ELSE parts[1] \o "," \o Join(Tail(parts))

RECURSIVE stringify(_)
stringify(v) ==
    CASE Tag(v) = "undefined" -> "null"
      [] Tag(v) = "null" -> "null"
      [] Tag(v) = "number" -> ToString(v[2])
      [] Tag(v) = "string" -> "\"" \o v[2] \o "\""
      [] Tag(v) = "boolean" -> IF v[2] THEN "true" ELSE "false"
      [] Tag(v) = "array" ->
            "[" \o Join(Tuple([i \in 1..Len(v[2]) |-> stringify(v[2][i])])) \o "]"
      [] Tag(v) = "object" ->
            LET kept == SelectSeq(v[2], LAMBDA e : Tag(e[2]) # "undefined")
            IN "{" \o Join(Tuple([i \in 1..Len(kept) |->
                       "\"" \o kept[i][1] \o "\":" \o stringify(kept[i][2])])) \o "}"

(***************************************************************************)
(* core/Query.ts: the abstract base class.                                 *)
(*                                                                         *)
(* A Query object is the record [kind, _body, operations, id]; kind is its *)
(* class.  A call that builds an object yields a construction record: the  *)
(* object's fields, `fresh` (it came from `new`, so it has an identity of  *)
(* its own) and `used`, the number of ids generateId() handed out while it *)
(* was built (temporary wrapper queries take ids too); the object's own id *)
(* is the last of them.  The id string is q_<counter>_<Date.now()>: only   *)
(* the counter is modelled.  Timestamps and operation ids are left out.    *)
(***************************************************************************)
\* a faulty generator: the counter is read but not advanced
generateId_noIncrement(counter) == counter

\* ++queryIdCounter
generateId(counter) == counter + 1

RECURSIVE IdsFrom(_, _)
IdsFrom(counter, n) ==
    IF n = 0 THEN <<>>
    ELSE <<generateId(counter)>> \o IdsFrom(generateId(counter), n - 1)

\* constructor(body, metadata?) with no metadata, as every call site has it
Query_constructor(kind, body) ==
    [threw |-> FALSE, fresh |-> TRUE, kind |-> kind, _body |-> _deepClone(body),
     operations |-> <<>>, used |-> 1]

toJSON(q) == _deepClone(q._body)

\* an argument that is a Query is logged as { _type, _id, _toJSON }
_serializeArg(q) ==
    Obj(<< <<"_type", Str("Query")>>, <<"_id", Num(q.id)>>, <<"_toJSON", toJSON(q)>> >>)

_recordOperation(method, args) == [method |-> method, args |-> args]

\* a faulty comparison: object identity instead of the serialized bodies
equals_byIdentity(q1, q2) == q1.id = q2.id

equals(q1, q2) == stringify(toJSON(q1)) = stringify(toJSON(q2))

\* throw new Error(msg)
Throw(msg) == [threw |-> TRUE, error |-> msg]

\* new (class extends Query { toJSON() { return json; } ... })({})
\* the wrapper a clone() hands to a constructor: one id, and the json it returns
TempQuery(json) == [kind |-> "Query", _body |-> EmptyObj, operations |-> <<>>, json |-> json]

\* q.toJSON() where q may be such a wrapper
SubJSON(q) == IF "json" \in DOMAIN q THEN q.json ELSE toJSON(q)

(***************************************************************************)
(* queries/TermQuery.ts                                                    *)
(***************************************************************************)
TermQuery_getBaseValue(value) ==
    IF TypeofObject(value) /\ Tag(value) # "null" /\ Has(value, "value")
    THEN Get(value, "value")
    ELSE value

TermQuery_constructor(field, value) ==
    Query_constructor("TermQuery", Obj1("term", Obj1(field, value)))

TermQuery_clone(this, body, metadata) ==
    LET newBody == Spread(this._body, body)
        entry == FirstEntry(Get(newBody, "term"))
        baseValue == TermQuery_getBaseValue(entry[2])
        newQuery == TermQuery_constructor(entry[1], baseValue)
    IN [newQuery EXCEPT !._body = _deepClone(newBody)]

TermQuery_getValue(this) ==
    TermQuery_getBaseValue(FirstEntry(Get(this._body, "term"))[2])

TermQuery_getBoost(this) ==
    LET value == FirstEntry(Get(this._body, "term"))[2]
    IN IF TypeofObject(value) /\ Tag(value) # "null" /\ Has(value, "boost")
       THEN Get(value, "boost") ELSE Undef

(***************************************************************************)
(* queries/BoolQuery.ts                                                    *)
(***************************************************************************)
BoolQuery_constructor(body) ==
    Query_constructor("BoolQuery", Spread(Obj1("bool", EmptyObj), body))

BoolQuery_clone(this, body, metadata) ==
    BoolQuery_constructor(Spread(this._body, body))

\* a faulty isEmpty, that looks at the must slot only
BoolQuery_isEmpty_mustOnly(this) ==
    Length(Get(Get(this._body, "bool"), "must")) = 0

BoolQuery_isEmpty(this) ==
    LET bool == Get(this._body, "bool")
    IN /\ Length(Get(bool, "must")) = 0
       /\ Length(Get(bool, "should")) = 0
       /\ Length(Get(bool, "filter")) = 0
       /\ Length(Get(bool, "must_not")) = 0

\* bool.must?.length || 0, and the same for the other slots
BoolQuery_getClauseCounts(this) ==
    LET bool == Get(this._body, "bool")
    IN [must |-> Length(Get(bool, "must")), should |-> Length(Get(bool, "should")),
        filter |-> Length(Get(bool, "filter")), mustNot |-> Length(Get(bool, "must_not"))]

\* Q.isEmpty
Q_isEmpty(query) ==
    IF query.kind = "BoolQuery" THEN BoolQuery_isEmpty(query) ELSE FALSE

(***************************************************************************)
(* queries/BoostingQuery.ts                                                *)
(***************************************************************************)
DefaultNegativeBoost == 2

BoostingQuery_constructor(positive, negative, negativeBoost) ==
    Query_constructor("BoostingQuery",
        Obj1("boosting", Obj(<< <<"positive", SubJSON(positive)>>,
                                <<"negative", SubJSON(negative)>>,
                                <<"negative_boost",
                                  IF Tag(negativeBoost) = "undefined" THEN Num(DefaultNegativeBoost)
                                  ELSE negativeBoost>> >>)))

BoostingQuery_clone(this, body, metadata) ==
    LET newBody == Spread(this._body, body)
        positive == Get(Get(this._body, "boosting"), "positive")
        negative == Get(Get(this._body, "boosting"), "negative")
        negativeBoost == OrElse(Get(Get(newBody, "boosting"), "negative_boost"),
                                Get(Get(this._body, "boosting"), "negative_boost"))
        built == BoostingQuery_constructor(TempQuery(positive), TempQuery(negative),
                                           negativeBoost)
    IN [built EXCEPT !.used = 3]

BoostingQuery_getNegativeBoost(this) ==
    Get(Get(this._body, "boosting"), "negative_boost")

(***************************************************************************)
(* queries/DisMaxQuery.ts                                                  *)
(***************************************************************************)
DisMaxQuery_constructor(queries) ==
    Query_constructor("DisMaxQuery",
        Obj1("dis_max", Obj1("queries",
            Arr(Tuple([i \in 1..Len(queries) |-> SubJSON(queries[i])])))))

DisMaxQuery_clone(this, body, metadata) ==
    LET newBody == Spread(this._body, body)
        queries == Get(Get(this._body, "dis_max"), "queries")
        tempQueries == Tuple([i \in 1..Len(queries[2]) |-> TempQuery(queries[2][i])])
        built == DisMaxQuery_constructor(tempQueries)
    IN [built EXCEPT !.used = Len(tempQueries) + 1]

DisMaxQuery_getQueries(this) == Get(Get(this._body, "dis_max"), "queries")
DisMaxQuery_getTieBreaker(this) == Get(Get(this._body, "dis_max"), "tie_breaker")

(***************************************************************************)
(* queries/ConstantScoreQuery.ts                                           *)
(***************************************************************************)
ConstantScoreQuery_constructor(filter, boostArg) ==
    LET boost == IF Tag(boostArg) = "undefined" THEN Num(10) ELSE boostArg
        base == Obj1("filter", SubJSON(filter))
    IN Query_constructor("ConstantScoreQuery",
           Obj1("constant_score",
                IF boost # Num(10) THEN Put(base, "boost", boost) ELSE base))

ConstantScoreQuery_clone(this, body, metadata) ==
    LET newBody == Spread(this._body, body)
        filter == Get(Get(this._body, "constant_score"), "filter")
        boost == OrElse(OrElse(Get(Get(newBody, "constant_score"), "boost"),
                               Get(Get(this._body, "constant_score"), "boost")),
                        Num(10))
        built == ConstantScoreQuery_constructor(TempQuery(filter), boost)
    IN [built EXCEPT !.used = 2]

ConstantScoreQuery_getFilter(this) == Get(Get(this._body, "constant_score"), "filter")
ConstantScoreQuery_getBoost(this) == Get(Get(this._body, "constant_score"), "boost")

(***************************************************************************)
(* queries/NestedQuery.ts                                                  *)
(***************************************************************************)
NestedQuery_constructor(path, query) ==
    Query_constructor("NestedQuery",
        Obj1("nested", Obj(<< <<"path", path>>, <<"query", SubJSON(query)>> >>)))

NestedQuery_clone(this, body, metadata) ==
    LET newBody == Spread(this._body, body)
        path == OrElse(Get(Get(newBody, "nested"), "path"),
                       Get(Get(this._body, "nested"), "path"))
        query == Get(Get(this._body, "nested"), "query")
        built == NestedQuery_constructor(path, TempQuery(query))
    IN [built EXCEPT !.used = 2]

(***************************************************************************)
(* queries/ScriptScoreQuery.ts                                             *)
(***************************************************************************)
ScriptScoreQuery_constructor(query, script) ==
    Query_constructor("ScriptScoreQuery",
        Obj1("script_score", Obj(<< <<"query", SubJSON(query)>>,
                                    <<"script", Spread(EmptyObj, script)>> >>)))

ScriptScoreQuery_clone(this, body, metadata) ==
    LET newBody == Spread(this._body, body)
        query == Get(Get(this._body, "script_score"), "query")
        script == OrElse(Get(Get(newBody, "script_score"), "script"),
                         Get(Get(this._body, "script_score"), "script"))
        built == ScriptScoreQuery_constructor(TempQuery(query), script)
    IN [built EXCEPT !.used = 2]

(***************************************************************************)
(* queries/FunctionScoreQuery.ts                                           *)
(***************************************************************************)
\* the constructor called without its optional query
NoQuery == [kind |-> "undefined"]

FunctionScoreQuery_constructor(query) ==
    Query_constructor("FunctionScoreQuery",
        Obj1("function_score",
             IF query.kind = "undefined" THEN EmptyObj
             ELSE Obj1("query", SubJSON(query))))

FunctionScoreQuery_clone(this, body, metadata) ==
    LET newBody == Spread(this._body, body)
        query == Get(Get(this._body, "function_score"), "query")
        tempQuery == IF Falsy(query) THEN NoQuery ELSE TempQuery(query)
        built == FunctionScoreQuery_constructor(tempQuery)
    IN [built EXCEPT !.used = IF Falsy(query) THEN 1 ELSE 2]

(***************************************************************************)
(* queries/QueryStringQuery.ts                                             *)
(***************************************************************************)
QueryStringQuery_constructor(query) ==
    Query_constructor("QueryStringQuery", Obj1("query_string", Obj1("query", query)))

QueryStringQuery_clone(this, body, metadata) ==
    LET newBody == Spread(this._body, body)
        query == OrElse(Get(Get(newBody, "query_string"), "query"),
                        Get(Get(this._body, "query_string"), "query"))
    IN QueryStringQuery_constructor(query)

(***************************************************************************)
(* queries/SimpleQueryStringQuery.ts                                       *)
(***************************************************************************)
SimpleQueryStringQuery_constructor(query) ==
    Query_constructor("SimpleQueryStringQuery",
        Obj1("simple_query_string", Obj1("query", query)))

SimpleQueryStringQuery_clone(this, body, metadata) ==
    LET newBody == Spread(this._body, body)
        query == OrElse(Get(Get(newBody, "simple_query_string"), "query"),
                        Get(Get(this._body, "simple_query_string"), "query"))
    IN SimpleQueryStringQuery_constructor(query)

(***************************************************************************)
(* queries/MoreLikeThisQuery.ts                                            *)
(***************************************************************************)
\* Array.isArray(x) ? x : [x]
AsArray(x) == IF IsArr(x) THEN x ELSE Arr(<<x>>)

MoreLikeThisQuery_constructor(fields, like) ==
    Query_constructor("MoreLikeThisQuery",
        Obj1("more_like_this", Obj(<< <<"fields", AsArray(fields)>>,
                                      <<"like", AsArray(like)>> >>)))

MoreLikeThisQuery_clone(this, body, metadata) ==
    LET newBody == Spread(this._body, body)
        fields == OrElse(OrElse(Get(Get(newBody, "more_like_this"), "fields"),
                                Get(Get(this._body, "more_like_this"), "fields")),
                         Arr(<<>>))
        like == OrElse(OrElse(Get(Get(newBody, "more_like_this"), "like"),
                              Get(Get(this._body, "more_like_this"), "like")),
                       Arr(<<>>))
    IN MoreLikeThisQuery_constructor(fields, like)

(***************************************************************************)
(* queries/MatchPhrasePrefixQuery.ts                                       *)
(***************************************************************************)
MatchPhrasePrefixQuery_constructor(field, query) ==
    Query_constructor("MatchPhrasePrefixQuery",
        Obj1("match_phrase_prefix", Obj1(field, query)))

MatchPhrasePrefixQuery_getField(this) ==
    FirstEntry(Get(this._body, "match_phrase_prefix"))[1]

MatchPhrasePrefixQuery_getQuery(this) ==
    LET fieldValue == Get(Get(this._body, "match_phrase_prefix"),
                          MatchPhrasePrefixQuery_getField(this))
    IN IF Tag(fieldValue) = "string" THEN fieldValue ELSE Get(fieldValue, "query")

\* const { query, ...rest } = fieldValue
MatchPhrasePrefixQuery_getFieldObject(this) ==
    LET fieldValue == Get(Get(this._body, "match_phrase_prefix"),
                          MatchPhrasePrefixQuery_getField(this))
    IN IF Tag(fieldValue) = "string" THEN EmptyObj ELSE Delete(fieldValue, "query")

MatchPhrasePrefixQuery_clone(this, body, metadata) ==
    LET newBody == Spread(this._body, body)
    IN MatchPhrasePrefixQuery_constructor(MatchPhrasePrefixQuery_getField(this),
                                          MatchPhrasePrefixQuery_getQuery(this))

(***************************************************************************)
(* queries/TermsSetQuery.ts                                                *)
(***************************************************************************)
TermsSetQuery_constructor(field, terms) ==
    Query_constructor("TermsSetQuery",
        Obj1("terms_set", Obj1(field, Obj1("terms", terms))))

TermsSetQuery_getField(this) == FirstEntry(Get(this._body, "terms_set"))[1]

TermsSetQuery_getTerms(this) ==
    Get(Get(Get(this._body, "terms_set"), TermsSetQuery_getField(this)), "terms")

TermsSetQuery_clone(this, body, metadata) ==
    LET newBody == Spread(this._body, body)
    IN TermsSetQuery_constructor(TermsSetQuery_getField(this), TermsSetQuery_getTerms(this))

(***************************************************************************)
(* queries/MatchAllQuery.ts                                                *)
(***************************************************************************)
MatchAllQuery_constructor ==
    Query_constructor("MatchAllQuery", Obj1("match_all", EmptyObj))

MatchAllQuery_clone(this, body, metadata) ==
    LET newBody == Spread(this._body, body)
    IN [MatchAllQuery_constructor EXCEPT !._body = _deepClone(newBody)]

(***************************************************************************)
(* The term-like variants: match, match_phrase, wildcard, prefix, fuzzy    *)
(* and regexp.  Each holds { <top>: { [field]: value } }, and each has a   *)
(* clone() that keeps newBody whole, as TermQuery has.                     *)
(***************************************************************************)
\* the private _getBaseValue of each class: value[base] of the expanded form
_getBaseValue(value, base) ==
    IF TypeofObject(value) /\ Tag(value) # "null" /\ Has(value, base)
    THEN Get(value, base)
    ELSE value

MatchQuery_constructor(field, value) ==
    Query_constructor("MatchQuery", Obj1("match", Obj1(field, value)))

MatchQuery_clone(this, body, metadata) ==
    LET newBody == Spread(this._body, body)
        entry == FirstEntry(Get(newBody, "match"))
        baseValue == IF TypeofObject(entry[2]) THEN Get(entry[2], "query") ELSE entry[2]
        newQuery == MatchQuery_constructor(entry[1], baseValue)
    IN [newQuery EXCEPT !._body = _deepClone(newBody)]

MatchPhraseQuery_constructor(field, value) ==
    Query_constructor("MatchPhraseQuery", Obj1("match_phrase", Obj1(field, value)))

MatchPhraseQuery_clone(this, body, metadata) ==
    LET newBody == Spread(this._body, body)
        entry == FirstEntry(Get(newBody, "match_phrase"))
        baseValue == _getBaseValue(entry[2], "query")
        newQuery == MatchPhraseQuery_constructor(entry[1], baseValue)
    IN [newQuery EXCEPT !._body = _deepClone(newBody)]

WildcardQuery_constructor(field, value) ==
    Query_constructor("WildcardQuery", Obj1("wildcard", Obj1(field, value)))

WildcardQuery_clone(this, body, metadata) ==
    LET newBody == Spread(this._body, body)
        entry == FirstEntry(Get(newBody, "wildcard"))
        baseValue == _getBaseValue(entry[2], "value")
        newQuery == WildcardQuery_constructor(entry[1], baseValue)
    IN [newQuery EXCEPT !._body = _deepClone(newBody)]

PrefixQuery_constructor(field, value) ==
    Query_constructor("PrefixQuery", Obj1("prefix", Obj1(field, value)))

PrefixQuery_clone(this, body, metadata) ==
    LET newBody == Spread(this._body, body)
        entry == FirstEntry(Get(newBody, "prefix"))
        baseValue == _getBaseValue(entry[2], "value")
        newQuery == PrefixQuery_constructor(entry[1], baseValue)
    IN [newQuery EXCEPT !._body = _deepClone(newBody)]

FuzzyQuery_constructor(field, value) ==
    Query_constructor("FuzzyQuery", Obj1("fuzzy", Obj1(field, value)))

FuzzyQuery_clone(this, body, metadata) ==
    LET newBody == Spread(this._body, body)
        entry == FirstEntry(Get(newBody, "fuzzy"))
        baseValue == _getBaseValue(entry[2], "value")
        newQuery == FuzzyQuery_constructor(entry[1], baseValue)
    IN [newQuery EXCEPT !._body = _deepClone(newBody)]

RegexpQuery_constructor(field, value) ==
    Query_constructor("RegexpQuery", Obj1("regexp", Obj1(field, value)))

RegexpQuery_clone(this, body, metadata) ==
    LET newBody == Spread(this._body, body)
        entry == FirstEntry(Get(newBody, "regexp"))
        baseValue == _getBaseValue(entry[2], "value")
        newQuery == RegexpQuery_constructor(entry[1], baseValue)
    IN [newQuery EXCEPT !._body = _deepClone(newBody)]

(***************************************************************************)
(* queries/RangeQuery.ts                                                   *)
(***************************************************************************)
RangeQuery_constructor(field) ==
    Query_constructor("RangeQuery", Obj1("range", Obj1(field, EmptyObj)))

RangeQuery_clone(this, body, metadata) ==
    LET newBody == Spread(this._body, body)
        field == FirstEntry(Get(newBody, "range"))[1]
        newQuery == RangeQuery_constructor(field)
    IN [newQuery EXCEPT !._body = _deepClone(newBody)]

RangeQuery_getBounds(this) ==
    LET range == FirstEntry(Get(this._body, "range"))[2]
    IN [gte |-> Get(range, "gte"), gt |-> Get(range, "gt"),
        lte |-> Get(range, "lte"), lt |-> Get(range, "lt")]

\* a faulty hasBounds, that takes any key of the range for a bound
RangeQuery_hasBounds_anyKey(this) ==
    KeySet(FirstEntry(Get(this._body, "range"))[2]) # {}

RangeQuery_hasBounds(this) ==
    LET bounds == RangeQuery_getBounds(this)
    IN \/ Tag(bounds.gte) # "undefined"
       \/ Tag(bounds.gt) # "undefined"
       \/ Tag(bounds.lte) # "undefined"
       \/ Tag(bounds.lt) # "undefined"

(***************************************************************************)
(* Q.validate: the checks inside its try block, in their order; toJSON,    *)
(* isEmpty and hasBounds do not throw, so the catch branch is never taken. *)
(***************************************************************************)
\* a faulty validate, that leaves out the range check
Q_validate_boolOnly(query) ==
    LET errors == IF query.kind = "BoolQuery" /\ BoolQuery_isEmpty(query)
                  THEN <<"Bool query has no clauses">> ELSE <<>>
    IN [threw |-> FALSE, valid |-> Len(errors) = 0, errors |-> errors]

Q_validate(query) ==
    LET json == toJSON(query)
        e1 == IF Falsy(json) \/ ~TypeofObject(json)
              THEN <<"Query does not produce valid JSON object">> ELSE <<>>
        e2 == IF query.kind = "BoolQuery" /\ BoolQuery_isEmpty(query)
              THEN <<"Bool query has no clauses">> ELSE <<>>
        e3 == IF query.kind = "RangeQuery" /\ ~RangeQuery_hasBounds(query)
              THEN <<"Range query has no bounds set">> ELSE <<>>
        errors == e1 \o e2 \o e3
    IN [threw |-> FALSE, valid |-> Len(errors) = 0, errors |-> errors]

(***************************************************************************)
(* queries/ExistsQuery.ts                                                  *)
(***************************************************************************)
ExistsQuery_constructor(field) ==
    Query_constructor("ExistsQuery", Obj1("exists", Obj1("field", Str(field))))

ExistsQuery_clone(this, body, metadata) ==
    LET newBody == Spread(this._body, body)
        field == Get(Get(newBody, "exists"), "field")
        newQuery == ExistsQuery_constructor(field[2])
    IN [newQuery EXCEPT !._body = _deepClone(newBody)]

(***************************************************************************)
(* queries/TermsQuery.ts                                                   *)
(***************************************************************************)
TermsQuery_constructor(field, values) ==
    Query_constructor("TermsQuery", Obj1("terms", Obj1(field, values)))

TermsQuery_clone(this, body, metadata) ==
    LET newBody == Spread(this._body, body)
        entry == FirstEntry(Get(newBody, "terms"))
        baseValues == IF IsArr(entry[2]) THEN entry[2]
                      ELSE OrElse(Get(entry[2], "values"), Arr(<<>>))
        newQuery == TermsQuery_constructor(entry[1], baseValues)
    IN [newQuery EXCEPT !._body = _deepClone(newBody)]

TermsQuery_getTerms(this) ==
    LET value == FirstEntry(Get(this._body, "terms"))[2]
    IN IF IsArr(value) THEN value
       ELSE IF Has(value, "values") THEN Get(value, "values")
       ELSE Arr(<<>>)

TermsQuery_getBoost(this) ==
    LET value == FirstEntry(Get(this._body, "terms"))[2]
    IN IF TypeofObject(value) /\ Tag(value) # "null" /\ Has(value, "boost")
       THEN Get(value, "boost")
       ELSE Undef

(***************************************************************************)
(* Query._createNew: the new operation list is computed and handed to the  *)
(* variant's clone() as metadata.                                          *)
(***************************************************************************)
clone(this, body, metadata) ==
    CASE this.kind = "TermQuery" -> TermQuery_clone(this, body, metadata)
      [] this.kind = "BoolQuery" -> BoolQuery_clone(this, body, metadata)
      [] this.kind = "BoostingQuery" -> BoostingQuery_clone(this, body, metadata)
      [] this.kind = "DisMaxQuery" -> DisMaxQuery_clone(this, body, metadata)
      [] this.kind = "ConstantScoreQuery" -> ConstantScoreQuery_clone(this, body, metadata)
      [] this.kind = "NestedQuery" -> NestedQuery_clone(this, body, metadata)
      [] this.kind = "ScriptScoreQuery" -> ScriptScoreQuery_clone(this, body, metadata)
      [] this.kind = "FunctionScoreQuery" -> FunctionScoreQuery_clone(this, body, metadata)
      [] this.kind = "QueryStringQuery" -> QueryStringQuery_clone(this, body, metadata)
      [] this.kind = "SimpleQueryStringQuery" ->
            SimpleQueryStringQuery_clone(this, body, metadata)
      [] this.kind = "MoreLikeThisQuery" -> MoreLikeThisQuery_clone(this, body, metadata)
      [] this.kind = "MatchPhrasePrefixQuery" ->
            MatchPhrasePrefixQuery_clone(this, body, metadata)
      [] this.kind = "TermsSetQuery" -> TermsSetQuery_clone(this, body, metadata)
      [] this.kind = "MatchAllQuery" -> MatchAllQuery_clone(this, body, metadata)
      [] this.kind = "RangeQuery" -> RangeQuery_clone(this, body, metadata)
      [] this.kind = "TermsQuery" -> TermsQuery_clone(this, body, metadata)
      [] this.kind = "ExistsQuery" -> ExistsQuery_clone(this, body, metadata)
      [] this.kind = "MatchQuery" -> MatchQuery_clone(this, body, metadata)
      [] this.kind = "MatchPhraseQuery" -> MatchPhraseQuery_clone(this, body, metadata)
      [] this.kind = "WildcardQuery" -> WildcardQuery_clone(this, body, metadata)
      [] this.kind = "PrefixQuery" -> PrefixQuery_clone(this, body, metadata)
      [] this.kind = "FuzzyQuery" -> FuzzyQuery_clone(this, body, metadata)
      [] this.kind = "RegexpQuery" -> RegexpQuery_clone(this, body, metadata)

\* a faulty _createNew, that writes the new body into the receiver
_createNew_inPlace(this, newBody, operation) ==
    [threw |-> FALSE, fresh |-> FALSE, kind |-> this.kind, _body |-> _deepClone(newBody),
     operations |-> this.operations, used |-> 0]

_createNew(this, newBody, operation) ==
    clone(this, newBody, [operations |-> Append(this.operations, operation)])

(***************************************************************************)
(* The mutators.  A sub-query argument is a Query object.                  *)
(***************************************************************************)
IsExpanded(v) == TypeofObject(v) /\ Tag(v) # "null"

\* a faulty boost, that keeps a boost already set
TermQuery_boost_firstWins(this, value) ==
    LET entry == FirstEntry(Get(this._body, "term"))
        currentValue == entry[2]
        newValue == IF IsExpanded(currentValue)
                    THEN IF Has(currentValue, "boost") THEN currentValue
                         ELSE Put(currentValue, "boost", value)
                    ELSE Obj(<< <<"value", currentValue>>, <<"boost", value>> >>)
    IN _createNew(this, Obj1("term", Obj1(entry[1], newValue)),
                  _recordOperation("boost", <<value>>))

TermQuery_boost(this, value) ==
    LET entry == FirstEntry(Get(this._body, "term"))
        currentValue == entry[2]
        newValue == IF IsExpanded(currentValue)
                    THEN Put(currentValue, "boost", value)
                    ELSE Obj(<< <<"value", currentValue>>, <<"boost", value>> >>)
    IN _createNew(this, Obj1("term", Obj1(entry[1], newValue)),
                  _recordOperation("boost", <<value>>))

TermQuery_caseInsensitive(this, value) ==
    LET entry == FirstEntry(Get(this._body, "term"))
        currentValue == entry[2]
        newValue == IF IsExpanded(currentValue)
                    THEN Put(currentValue, "case_insensitive", value)
                    ELSE Obj(<< <<"value", currentValue>>, <<"case_insensitive", value>> >>)
    IN _createNew(this, Obj1("term", Obj1(entry[1], newValue)),
                  _recordOperation("caseInsensitive", <<value>>))

\* The option mutators of the term-like variants share one body:
\*   newValue = typeof currentValue === 'object' && currentValue !== null
\*     ? { ...currentValue, [key]: value } : { [base]: currentValue, [key]: value }
\* (MatchQuery leaves the null test out; { ...null, k: v } is { k: v }).
\* A faulty one, that always starts again from the base value:
Promote_fromBase(this, top, base, key, value, method, nullChecked) ==
    LET entry == FirstEntry(Get(this._body, top))
        newValue == Obj(<< <<base, _getBaseValue(entry[2], base)>>, <<key, value>> >>)
    IN _createNew(this, Obj1(top, Obj1(entry[1], newValue)),
                  _recordOperation(method, <<value>>))

Promote(this, top, base, key, value, method, nullChecked) ==
    LET entry == FirstEntry(Get(this._body, top))
        currentValue == entry[2]
        isObject == IF nullChecked THEN IsExpanded(currentValue)
                    ELSE TypeofObject(currentValue)
        newValue == IF isObject
                    THEN IF Tag(currentValue) = "null" THEN Obj1(key, value)
                         ELSE Put(currentValue, key, value)
                    ELSE Obj(<< <<base, currentValue>>, <<key, value>> >>)
    IN _createNew(this, Obj1(top, Obj1(entry[1], newValue)),
                  _recordOperation(method, <<value>>))

\* a faulty setter, that forgets what the range held
RangeQuery_set_alone(this, key, value, method) ==
    LET entry == FirstEntry(Get(this._body, "range"))
    IN _createNew(this, Obj1("range", Obj1(entry[1], Obj1(key, value))),
                  _recordOperation(method, <<value>>))

\* gte, gt, lte, lt, boost, format, timeZone and relation differ only in the
\* key they write: { range: { [field]: { ...currentRange, [key]: value } } }
RangeQuery_set(this, key, value, method) ==
    LET entry == FirstEntry(Get(this._body, "range"))
        currentRange == entry[2]
    IN _createNew(this, Obj1("range", Obj1(entry[1], Put(currentRange, key, value))),
                  _recordOperation(method, <<value>>))

\* a faulty between, that always sets the inclusive pair
RangeQuery_between_inclusive(this, min, max, inclusive) ==
    LET entry == FirstEntry(Get(this._body, "range"))
    IN _createNew(this, Obj1("range", Obj1(entry[1], Put(Put(entry[2], "gte", min), "lte", max))),
                  _recordOperation("between", <<min, max, inclusive>>))

\* between(min, max, inclusive = true): an omitted flag takes the default
RangeQuery_between(this, min, max, inclusive) ==
    LET flag == IF Tag(inclusive) = "undefined" THEN Bool(TRUE) ELSE inclusive
        entry == FirstEntry(Get(this._body, "range"))
        currentRange == entry[2]
        newRange == IF ~Falsy(flag)
                    THEN Put(Put(currentRange, "gte", min), "lte", max)
                    ELSE Put(Put(currentRange, "gt", min), "lt", max)
    IN _createNew(this, Obj1("range", Obj1(entry[1], newRange)),
                  _recordOperation("between", <<min, max, flag>>))

\* a faulty append: the new clauses take the place of the slot's clauses
BoolQuery_addClauses_replacing(this, method, slot, queries) ==
    LET bool == Get(this._body, "bool")
        added == Arr(Tuple([i \in 1..Len(queries) |-> toJSON(queries[i])]))
    IN _createNew(this, Obj1("bool", Put(bool, slot, added)),
                  _recordOperation(method, <<>>))

\* a faulty append: each clause is wrapped in a bool query of its own
BoolQuery_addClauses_wrapped(this, method, slot, queries) ==
    LET bool == Get(this._body, "bool")
        current == OrElse(Get(bool, slot), Arr(<<>>))
        added == Arr(Tuple([i \in 1..Len(queries) |->
                     Obj1("bool", Obj1(slot, Arr(<<toJSON(queries[i])>>)))]))
    IN _createNew(this, Obj1("bool", Put(bool, slot, Concat(current, added))),
                  _recordOperation(method, <<>>))

\* a faulty append: the slot takes a reference to the query, not its serialized body
BoolQuery_addClauses_byReference(this, method, slot, queries) ==
    LET bool == Get(this._body, "bool")
        current == OrElse(Get(bool, slot), Arr(<<>>))
        added == Arr(Tuple([i \in 1..Len(queries) |-> Obj1("$ref", Num(queries[i].id))]))
    IN _createNew(this, Obj1("bool", Put(bool, slot, Concat(current, added))),
                  _recordOperation(method, <<>>))

\* must / should / filter / mustNot differ only in the slot they append to
BoolQuery_addClauses(this, method, slot, queries) ==
    LET bool == Get(this._body, "bool")
        current == OrElse(Get(bool, slot), Arr(<<>>))
        added == Arr(Tuple([i \in 1..Len(queries) |-> toJSON(queries[i])]))
    IN _createNew(this, Obj1("bool", Put(bool, slot, Concat(current, added))),
                  _recordOperation(method,
                      Tuple([i \in 1..Len(queries) |-> _serializeArg(queries[i])])))

BoolQuery_must(this, queries) == BoolQuery_addClauses(this, "must", "must", queries)
BoolQuery_should(this, queries) == BoolQuery_addClauses(this, "should", "should", queries)
BoolQuery_filter(this, queries) == BoolQuery_addClauses(this, "filter", "filter", queries)
BoolQuery_mustNot(this, queries) == BoolQuery_addClauses(this, "mustNot", "must_not", queries)

BoolQuery_minimumShouldMatch(this, value) ==
    _createNew(this, Obj1("bool", Put(Get(this._body, "bool"), "minimum_should_match", value)),
               _recordOperation("minimumShouldMatch", <<value>>))

BoolQuery_boost(this, value) ==
    _createNew(this, Obj1("bool", Put(Get(this._body, "bool"), "boost", value)),
               _recordOperation("boost", <<value>>))

BoostingQuery_positive(this, query) ==
    _createNew(this,
        Obj1("boosting", Put(Get(this._body, "boosting"), "positive", toJSON(query))),
        _recordOperation("positive", <<_serializeArg(query)>>))

BoostingQuery_negative(this, query) ==
    _createNew(this,
        Obj1("boosting", Put(Get(this._body, "boosting"), "negative", toJSON(query))),
        _recordOperation("negative", <<_serializeArg(query)>>))

\* a faulty range test: only the upper end is tested
OutOfUnitRange_upperOnly(value) == value[2] > 10

\* Number(value) < 0 || Number(value) > 1, on the fixed-point numbers
OutOfUnitRange(value) == value[2] < 0 \/ value[2] > 10

BoostingQuery_negativeBoost(this, value) ==
    IF OutOfUnitRange(value)
    THEN Throw("Negative boost must be between 0 and 1")
    ELSE _createNew(this,
             Obj1("boosting", Put(Get(this._body, "boosting"), "negative_boost", value)),
             _recordOperation("negativeBoost", <<value>>))

\* the common mutator: { top: { ...this._body.top, [key]: value } }
SetOption(this, top, key, value, method) ==
    _createNew(this, Obj1(top, Put(Get(this._body, top), key, value)),
               _recordOperation(method, <<value>>))

\* the same with a sub-query as the value: its serialized body is stored
SetSubQuery(this, top, key, query, method) ==
    _createNew(this, Obj1(top, Put(Get(this._body, top), key, toJSON(query))),
               _recordOperation(method, <<_serializeArg(query)>>))

JSONs(queries) == Arr(Tuple([i \in 1..Len(queries) |-> toJSON(queries[i])]))
Logged(queries) == Tuple([i \in 1..Len(queries) |-> _serializeArg(queries[i])])

DisMaxQuery_queries(this, queries) ==
    _createNew(this,
        Obj1("dis_max", Put(Get(this._body, "dis_max"), "queries", JSONs(queries))),
        _recordOperation("queries", <<Arr(Logged(queries))>>))

DisMaxQuery_query(this, query) ==
    LET currentQueries == Get(Get(this._body, "dis_max"), "queries")
    IN _createNew(this,
           Obj1("dis_max", Put(Get(this._body, "dis_max"), "queries",
                               Concat(currentQueries, Arr(<<toJSON(query)>>)))),
           _recordOperation("query", <<_serializeArg(query)>>))

DisMaxQuery_addQueries(this, queries) ==
    LET currentQueries == Get(Get(this._body, "dis_max"), "queries")
    IN _createNew(this,
           Obj1("dis_max", Put(Get(this._body, "dis_max"), "queries",
                               Concat(currentQueries, JSONs(queries)))),
           _recordOperation("addQueries", Logged(queries)))

DisMaxQuery_tieBreaker(this, value) ==
    IF OutOfUnitRange(value)
    THEN Throw("Tie breaker must be between 0 and 1")
    ELSE SetOption(this, "dis_max", "tie_breaker", value, "tieBreaker")

ConstantScoreQuery_boost(this, value) ==
    LET current == Get(this._body, "constant_score")
        newConstantScore == IF value = Num(10) THEN Delete(current, "boost")
                            ELSE Put(current, "boost", value)
    IN _createNew(this, Obj1("constant_score", newConstantScore),
                  _recordOperation("boost", <<value>>))

ScriptScoreQuery_script(this, script) ==
    SetOption(this, "script_score", "script", Spread(EmptyObj, script), "script")

FunctionScoreQuery_addFunction(this, func) ==
    LET currentFunctions == OrElse(Get(Get(this._body, "function_score"), "functions"),
                                   Arr(<<>>))
    IN SetOption(this, "function_score", "functions",
                 Concat(currentFunctions, Arr(<<func>>)), "addFunction")

\* the undefined optional arguments add no key
Config(pairs) == Obj(SelectSeq(pairs, LAMBDA e : Tag(e[2]) # "undefined"))

FunctionScoreQuery_randomScore(this, seed, field) ==
    _createNew(this,
        Obj1("function_score", Put(Get(this._body, "function_score"), "random_score",
                                   Config(<< <<"seed", seed>>, <<"field", field>> >>))),
        _recordOperation("randomScore", <<seed, field>>))

FunctionScoreQuery_fieldValueFactor(this, field, factor, modifier, missing) ==
    _createNew(this,
        Obj1("function_score", Put(Get(this._body, "function_score"), "field_value_factor",
             Spread(Obj1("field", field),
                    Config(<< <<"factor", factor>>, <<"modifier", modifier>>,
                              <<"missing", missing>> >>)))),
        _recordOperation("fieldValueFactor", <<field, factor, modifier, missing>>))

FunctionScoreQuery_scriptScore(this, script) ==
    _createNew(this,
        Obj1("function_score", Put(Get(this._body, "function_score"), "script_score",
                                   Obj1("script", script))),
        _recordOperation("scriptScore", <<script>>))

MoreLikeThisQuery_fields(this, fields) ==
    _createNew(this,
        Obj1("more_like_this", Put(Get(this._body, "more_like_this"), "fields",
                                   AsArray(fields))),
        _recordOperation("fields", <<fields>>))
MoreLikeThisQuery_like(this, like) ==
    _createNew(this,
        Obj1("more_like_this", Put(Get(this._body, "more_like_this"), "like",
                                   AsArray(like))),
        _recordOperation("like", <<like>>))

\* { [field]: { query: currentQuery, ...this._getFieldObject(), [key]: value } }
MatchPhrasePrefixQuery_set(this, key, value, method) ==
    LET field == MatchPhrasePrefixQuery_getField(this)
        currentQuery == MatchPhrasePrefixQuery_getQuery(this)
    IN _createNew(this,
           Obj1("match_phrase_prefix",
                Obj1(field, Put(Spread(Obj1("query", currentQuery),
                                       MatchPhrasePrefixQuery_getFieldObject(this)),
                                key, value))),
           _recordOperation(method, <<value>>))

\* { terms_set: { [field]: <the new field object> } }
TermsSetQuery_with(this, fieldObject, operation) ==
    _createNew(this, Obj1("terms_set", Obj1(TermsSetQuery_getField(this), fieldObject)),
               operation)

TermsSetQuery_current(this) ==
    Get(Get(this._body, "terms_set"), TermsSetQuery_getField(this))

TermsSetQuery_terms(this, terms) ==
    TermsSetQuery_with(this, Put(TermsSetQuery_current(this), "terms", terms),
                       _recordOperation("terms", <<terms>>))

TermsSetQuery_addTerms(this, newTerms) ==
    TermsSetQuery_with(this,
        Put(TermsSetQuery_current(this), "terms",
            Concat(Get(TermsSetQuery_current(this), "terms"), Arr(newTerms))),
        _recordOperation("addTerms", newTerms))

TermsSetQuery_minimumShouldMatchField(this, field) ==
    TermsSetQuery_with(this,
        Put(Put(TermsSetQuery_current(this), "minimum_should_match_field", field),
            "minimum_should_match_script", Undef),
        _recordOperation("minimumShouldMatchField", <<field>>))

TermsSetQuery_boost(this, value) ==
    TermsSetQuery_with(this, Put(TermsSetQuery_current(this), "boost", value),
                       _recordOperation("boost", <<value>>))

MatchAllQuery_boost(this, value) ==
    _createNew(this, Obj1("match_all", Obj1("boost", value)),
               _recordOperation("boost", <<value>>))

(***************************************************************************)
(* Query.when / Query.unless.  The callback fn is one of: a function that  *)
(* calls boost(2) on the query it is given, and a function that returns    *)
(* the query it is given.                                                  *)
(***************************************************************************)
TermsQuery_boost(this, value) ==
    LET entry == FirstEntry(Get(this._body, "terms"))
        currentValues == entry[2]
        newValue == IF IsArr(currentValues)
                    THEN Obj(<< <<"values", currentValues>>, <<"boost", value>> >>)
                    ELSE Put(currentValues, "boost", value)
    IN _createNew(this, Obj1("terms", Obj1(entry[1], newValue)),
                  _recordOperation("boost", <<value>>))

\* addTerms(...newTerms): the field takes the combined array
TermsQuery_addTerms(this, newTerms) ==
    LET entry == FirstEntry(Get(this._body, "terms"))
        currentValues == entry[2]
        existingValues == IF IsArr(currentValues) THEN currentValues
                          ELSE OrElse(Get(currentValues, "values"), Arr(<<>>))
        combinedValues == Concat(existingValues, Arr(newTerms))
    IN _createNew(this, Obj1("terms", Obj1(entry[1], combinedValues)),
                  _recordOperation("addTerms", newTerms))

ExistsQuery_boost(this, value) ==
    _createNew(this,
        Obj1("exists", Obj(<< <<"field", Get(Get(this._body, "exists"), "field")>>,
                              <<"boost", value>> >>)),
        _recordOperation("boost", <<value>>))

(***************************************************************************)
(* Q.exists.  The repository holds two texts of the Q helper: one returns  *)
(* new RangeQuery(field).gte(null), the other new ExistsQuery(field).      *)
(***************************************************************************)
Q_exists(field) ==
    LET range == RangeQuery_constructor(field)
        res == RangeQuery_set(range, "gte", Null, "gte")
    IN [res EXCEPT !.used = range.used + res.used]

Q_exists_ExistsQuery(field) == ExistsQuery_constructor(field)

(***************************************************************************)
(* Q.ts: the convenience combinators.  Each builds an empty BoolQuery and  *)
(* calls one clause mutator on it with the rest arguments as an array, so  *)
(* two objects are built and two ids taken.                                *)
(***************************************************************************)
OnNewBool(res) == [res EXCEPT !.used = BoolQuery_constructor(EmptyObj).used + res.used]

Q_and(queries) == OnNewBool(BoolQuery_must(BoolQuery_constructor(EmptyObj), queries))

\* a faulty or, that fills the must slot
Q_or_must(queries) == OnNewBool(BoolQuery_must(BoolQuery_constructor(EmptyObj), queries))

Q_or(queries) == OnNewBool(BoolQuery_should(BoolQuery_constructor(EmptyObj), queries))

Q_not(query) == OnNewBool(BoolQuery_mustNot(BoolQuery_constructor(EmptyObj), <<query>>))

Q_filter(queries) == OnNewBool(BoolQuery_filter(BoolQuery_constructor(EmptyObj), queries))

Q_must(queries) == OnNewBool(BoolQuery_must(BoolQuery_constructor(EmptyObj), queries))

Q_should(queries) == OnNewBool(BoolQuery_should(BoolQuery_constructor(EmptyObj), queries))

\* the object itself is returned: nothing is built
Same(this) ==
    [threw |-> FALSE, fresh |-> FALSE, kind |-> this.kind, _body |-> this._body,
     operations |-> this.operations, used |-> 0]

\* fn(query)
Apply(fn, query) ==
    CASE fn = "q => q.boost(2)" ->
            IF query.kind = "TermQuery" THEN TermQuery_boost(query, Num(20))
            ELSE BoolQuery_boost(query, Num(20))
      [] fn = "q => q" -> Same(query)

\* a faulty when: the callback is applied whatever the condition
Query_when_always(this, condition, fn) == Apply(fn, this)

\* condition ? fn(this) : this
Query_when(this, condition, fn) ==
    IF ~Falsy(condition) THEN Apply(fn, this) ELSE Same(this)

\* !condition ? fn(this) : this
Query_unless(this, condition, fn) ==
    IF Falsy(condition) THEN Apply(fn, this) ELSE Same(this)

(***************************************************************************)
(* Object identity.  The body of a Query object is a tree of nodes (arrays *)
(* and objects) that no other Query object refers to, because every        *)
(* constructor and every clone() stores _deepClone(body).  A node is named *)
(* by its path from the body: the keys and the 1-based positions on the    *)
(* way.  What the caller can do to a node it holds depends on whether the  *)
(* node is one of an instance's own nodes, and on whether that node was    *)
(* frozen.                                                                 *)
(***************************************************************************)
K(k) == <<"key", k>>
I(i) == <<"index", i>>
IsPrefix(p, q) == Len(p) <= Len(q) /\ SubSeq(q, 1, Len(p)) = p
Rest(p, q) == SubSeq(q, Len(p) + 1, Len(q))
Front(p) == SubSeq(p, 1, Len(p) - 1)

\* arrays and objects have an identity and can be written to
Mutable(v) == TypeofObject(v) /\ Tag(v) # "null"

\* v.p1.p2...
RECURSIVE At(_, _)
At(v, p) ==
    IF Len(p) = 0 THEN v
    ELSE IF p[1][1] = "index"
    THEN IF IsArr(v) /\ p[1][2] \in 1..Len(v[2]) THEN At(v[2][p[1][2]], Tail(p)) ELSE Undef
    ELSE IF IsObj(v) THEN At(Get(v, p[1][2]), Tail(p)) ELSE Undef

\* v.p1.p2... = x; a position one past the end of an array is a push
RECURSIVE Assign(_, _, _)
Assign(v, p, x) ==
    IF Len(p) = 0 THEN x
    ELSE IF p[1][1] = "index"
    THEN IF ~IsArr(v) THEN v
         ELSE IF p[1][2] = Len(v[2]) + 1 /\ Len(p) = 1 THEN Arr(Append(v[2], x))
         ELSE IF p[1][2] \in 1..Len(v[2])
         THEN Arr(Tuple([i \in 1..Len(v[2]) |->
                  IF i = p[1][2] THEN Assign(v[2][i], Tail(p), x) ELSE v[2][i]]))
         ELSE v
    ELSE IF IsObj(v) /\ (Len(p) = 1 \/ Has(v, p[1][2]))
    THEN Put(v, p[1][2], Assign(Get(v, p[1][2]), Tail(p), x))
    ELSE v

\* the paths of the nodes of v, v itself included
RECURSIVE Nodes(_)
Nodes(v) ==
    IF IsArr(v)
    THEN {<<>>} \cup UNION {{<<I(i)>> \o p : p \in Nodes(v[2][i])} : i \in 1..Len(v[2])}
    ELSE IF IsObj(v)
    THEN {<<>>} \cup UNION {{<<K(v[2][i][1])>> \o p : p \in Nodes(v[2][i][2])} :
                               i \in 1..Len(v[2])}
    ELSE {}

\* a copy of one level only: the nodes below the top are those of the input
_deepClone_oneLevel(v) == {p \in Nodes(v) : Len(p) = 1}

\* Query._deepClone, for identity: the paths at which the clone still holds
\* a node of its input.  A scalar is returned as it is and is no node;
\* obj.map(...) is a new array and `cloned = {}` a new object, each filled
\* with the clones of the members.
RECURSIVE _deepClone_kept(_)
_deepClone_kept(v) ==
    IF ~TypeofObject(v) \/ Tag(v) = "null" THEN {}
    ELSE IF IsArr(v)
    THEN UNION {{<<I(i)>> \o p : p \in _deepClone_kept(v[2][i])} : i \in 1..Len(v[2])}
    ELSE UNION {{<<K(v[2][i][1])>> \o p : p \in _deepClone_kept(v[2][i][2])} :
                   i \in 1..Len(v[2])}

\* Query.constructor: this._body = Object.freeze(this._deepClone(body)).
\* The nodes of the argument that _body still holds,
Query_constructor_kept(body) == _deepClone_kept(body)
\* and the nodes of _body that are frozen: Object.freeze freezes the object
\* it is given and none of its members.
Query_constructor_frozen(body) == {<<>>}

\* a toJSON that hands out the body itself
toJSON_sameObject(this) == {<<>>}
\* Query.toJSON, for identity: the nodes of _body that the result holds
toJSON_kept(this) == _deepClone_kept(this._body)

(***************************************************************************)
(* queries/IdsQuery.ts                                                     *)
(***************************************************************************)
IdsQuery_constructor(ids) ==
    Query_constructor("IdsQuery",
        Obj1("ids", Obj1("values", IF IsArr(ids) THEN ids ELSE Arr(<<ids>>))))

(***************************************************************************)
(* The accessors that return a member of the body: the node they return.   *)
(***************************************************************************)
IdsQuery_getIds_node(this) == <<K("ids"), K("values")>>
BoostingQuery_getPositive_node(this) == <<K("boosting"), K("positive")>>
TermsSetQuery_getTerms_node(this) ==
    <<K("terms_set"), K(TermsSetQuery_getField(this)), K("terms")>>
MoreLikeThisQuery_getFields_node(this) == <<K("more_like_this"), K("fields")>>
NestedQuery_getQuery_node(this) == <<K("nested"), K("query")>>
NestedQuery_getInnerHits_node(this) == <<K("nested"), K("inner_hits")>>
FunctionScoreQuery_getFunctions_node(this) == <<K("function_score"), K("functions")>>

Accessors ==
    {<<"IdsQuery", "getIds">>, <<"BoostingQuery", "getPositive">>,
     <<"TermsSetQuery", "getTerms">>, <<"MoreLikeThisQuery", "getFields">>,
     <<"NestedQuery", "getQuery">>, <<"NestedQuery", "getInnerHits">>,
     <<"FunctionScoreQuery", "getFunctions">>}

Accessor(this, name) ==
    CASE name = "getIds" -> IdsQuery_getIds_node(this)
      [] name = "getPositive" -> BoostingQuery_getPositive_node(this)
      [] name = "getTerms" -> TermsSetQuery_getTerms_node(this)
      [] name = "getFields" -> MoreLikeThisQuery_getFields_node(this)
      [] name = "getQuery" -> NestedQuery_getQuery_node(this)
      [] name = "getInnerHits" -> NestedQuery_getInnerHits_node(this)
      [] name = "getFunctions" -> FunctionScoreQuery_getFunctions_node(this)

(***************************************************************************)
(* The caller.  A call either throws, and then nothing is built, or        *)
(* returns an object: a fresh one gets the next identity.                  *)
(***************************************************************************)
Fields == {"f"}
TermValues == {Str("a"), Str("b")}
BoostValues == {Num(0), Num(20)}
Ratios == {Num(-1), Num(0), Num(5), Num(10), Num(15)}
Flags == {Bool(TRUE), Bool(FALSE)}

NoInstance == [kind |-> "none"]
Receivers == 1..Len(instances)
OfKind(kind) == {r \in Receivers : instances[r].kind = kind}
Before(r) == IF r = 0 THEN NoInstance ELSE instances[r]
\* the caller's budget: the objects it builds, the references it takes and
\* the writes it makes through them
RECURSIVE Writes(_)
Writes(refs) == IF Len(refs) = 0 THEN 0 ELSE refs[1].writes + Writes(Tail(refs))
CanBuild == Len(instances) + Len(held) + Writes(held) < limit

Returned(r, method, args, subs, res) ==
    IF res.threw
    THEN /\ last' = [method |-> method, recv |-> r, args |-> args, subs |-> subs,
                     threw |-> TRUE, result |-> 0, before |-> Before(r)]
         /\ UNCHANGED <<instances, queryIdCounter, created, calls, limit, held>>
    ELSE LET ids == IdsFrom(queryIdCounter, res.used)
             obj == IF res.fresh
                    THEN [kind |-> res.kind, _body |-> res._body,
                          operations |-> res.operations, id |-> ids[Len(ids)]]
                    ELSE [instances[r] EXCEPT !._body = res._body,
                                              !.operations = res.operations]
             at == IF res.fresh THEN Len(instances) + 1 ELSE r
             call == [method |-> method, recv |-> r, args |-> args, subs |-> subs,
                      snaps |-> Tuple([i \in 1..Len(subs) |-> toJSON(instances[subs[i]])]),
                      json |-> toJSON(obj)]
         IN /\ instances' = IF res.fresh THEN Append(instances, obj)
                            ELSE [instances EXCEPT ![r] = obj]
            /\ calls' = IF res.fresh THEN Append(calls, call) ELSE calls
            /\ queryIdCounter' = IF Len(ids) = 0 THEN queryIdCounter ELSE ids[Len(ids)]
            /\ created' = created \o ids
            /\ last' = [method |-> method, recv |-> r, args |-> args, subs |-> subs,
                        threw |-> FALSE, result |-> at, before |-> Before(r)]
            /\ UNCHANGED <<limit, held>>

Q_term ==
    \E f \in Fields, v \in TermValues :
        /\ CanBuild
        /\ Returned(0, "Q.term", <<Str(f), v>>, <<>>, TermQuery_constructor(f, v))

\* Q.term with a value of each type: string, number, boolean, null, object
ValuesOfEachType == {Str("a"), Num(0), Bool(FALSE), Null, Obj1("a", Num(10))}

Q_termOfEachType ==
    \E f \in Fields, v \in ValuesOfEachType :
        /\ CanBuild
        /\ Returned(0, "Q.term", <<Str(f), v>>, <<>>, TermQuery_constructor(f, v))

Q_bool ==
    /\ CanBuild
    /\ Returned(0, "Q.bool", <<>>, <<>>, BoolQuery_constructor(EmptyObj))

Q_boosting ==
    \E p \in Receivers, n \in Receivers, b \in Ratios \cup {Undef} :
        /\ CanBuild
        /\ Returned(0, "Q.boosting", <<b>>, <<p, n>>,
                    BoostingQuery_constructor(instances[p], instances[n], b))

Term_boost ==
    \E r \in OfKind("TermQuery"), v \in BoostValues :
        /\ CanBuild
        /\ Returned(r, "boost", <<v>>, <<>>, TermQuery_boost(instances[r], v))

Term_caseInsensitive ==
    \E r \in OfKind("TermQuery"), v \in Flags :
        /\ CanBuild
        /\ Returned(r, "caseInsensitive", <<v>>, <<>>,
                    TermQuery_caseInsensitive(instances[r], v))

Bool_must ==
    \E r \in OfKind("BoolQuery"), q \in Receivers :
        /\ CanBuild
        /\ Returned(r, "must", <<>>, <<q>>, BoolQuery_must(instances[r], <<instances[q]>>))

Bool_should ==
    \E r \in OfKind("BoolQuery"), q \in Receivers :
        /\ CanBuild
        /\ Returned(r, "should", <<>>, <<q>>, BoolQuery_should(instances[r], <<instances[q]>>))

Bool_filter ==
    \E r \in OfKind("BoolQuery"), q \in Receivers :
        /\ CanBuild
        /\ Returned(r, "filter", <<>>, <<q>>, BoolQuery_filter(instances[r], <<instances[q]>>))

Bool_mustNot ==
    \E r \in OfKind("BoolQuery"), q \in Receivers :
        /\ CanBuild
        /\ Returned(r, "mustNot", <<>>, <<q>>, BoolQuery_mustNot(instances[r], <<instances[q]>>))

Bool_boost ==
    \E r \in OfKind("BoolQuery"), v \in BoostValues :
        /\ CanBuild
        /\ Returned(r, "boost", <<v>>, <<>>, BoolQuery_boost(instances[r], v))

Boosting_positive ==
    \E r \in OfKind("BoostingQuery"), q \in Receivers :
        /\ CanBuild
        /\ Returned(r, "positive", <<>>, <<q>>,
                    BoostingQuery_positive(instances[r], instances[q]))

Boosting_negative ==
    \E r \in OfKind("BoostingQuery"), q \in Receivers :
        /\ CanBuild
        /\ Returned(r, "negative", <<>>, <<q>>,
                    BoostingQuery_negative(instances[r], instances[q]))

Boosting_negativeBoost ==
    \E r \in OfKind("BoostingQuery"), v \in Ratios :
        /\ CanBuild
        /\ Returned(r, "negativeBoost", <<v>>, <<>>,
                    BoostingQuery_negativeBoost(instances[r], v))

Texts == {Str("q")}
Paths == {Str("p")}
Names == {Str("n"), Str("m")}
Counts == {Num(10), Num(20)}
Scripts == {Obj1("source", Str("s"))}
FunctionConfigs == {Obj1("weight", Num(20))}
TermLists == {Arr(<<Str("a")>>), Arr(<<Str("a"), Str("b")>>)}
UnitBoosts == {Num(10), Num(20)}

\* the two-argument call: the ratio takes its default
Q_boosting2 ==
    \E p \in Receivers, n \in Receivers :
        /\ CanBuild
        /\ Returned(0, "Q.boosting", <<Undef>>, <<p, n>>,
                    BoostingQuery_constructor(instances[p], instances[n], Undef))

Q_disMax ==
    \E qs \in {<<>>} \cup {<<q>> : q \in Receivers} :
        /\ CanBuild
        /\ Returned(0, "Q.disMax", <<>>, qs,
                    DisMaxQuery_constructor(Tuple([i \in 1..Len(qs) |-> instances[qs[i]]])))

DisMax_query ==
    \E r \in OfKind("DisMaxQuery"), q \in Receivers :
        /\ CanBuild
        /\ Returned(r, "query", <<>>, <<q>>, DisMaxQuery_query(instances[r], instances[q]))

DisMax_addQueries ==
    \E r \in OfKind("DisMaxQuery"), q \in Receivers :
        /\ CanBuild
        /\ Returned(r, "addQueries", <<>>, <<q>>,
                    DisMaxQuery_addQueries(instances[r], <<instances[q]>>))

DisMax_queries ==
    \E r \in OfKind("DisMaxQuery"), q \in Receivers :
        /\ CanBuild
        /\ Returned(r, "queries", <<>>, <<q>>,
                    DisMaxQuery_queries(instances[r], <<instances[q]>>))

DisMax_tieBreaker ==
    \E r \in OfKind("DisMaxQuery"), v \in Ratios :
        /\ CanBuild
        /\ Returned(r, "tieBreaker", <<v>>, <<>>, DisMaxQuery_tieBreaker(instances[r], v))

DisMax_boost ==
    \E r \in OfKind("DisMaxQuery"), v \in BoostValues :
        /\ CanBuild
        /\ Returned(r, "boost", <<v>>, <<>>,
                    SetOption(instances[r], "dis_max", "boost", v, "boost"))

Q_constantScore ==
    \E f \in Receivers, b \in UnitBoosts \cup {Undef} :
        /\ CanBuild
        /\ Returned(0, "Q.constantScore", <<b>>, <<f>>,
                    ConstantScoreQuery_constructor(instances[f], b))

ConstantScore_filter ==
    \E r \in OfKind("ConstantScoreQuery"), q \in Receivers :
        /\ CanBuild
        /\ Returned(r, "filter", <<>>, <<q>>,
                    SetSubQuery(instances[r], "constant_score", "filter", instances[q], "filter"))

ConstantScore_boost ==
    \E r \in OfKind("ConstantScoreQuery"), v \in UnitBoosts :
        /\ CanBuild
        /\ Returned(r, "boost", <<v>>, <<>>, ConstantScoreQuery_boost(instances[r], v))

\* boost(0)
ConstantScore_boostZero ==
    \E r \in OfKind("ConstantScoreQuery") :
        /\ CanBuild
        /\ Returned(r, "boost", <<Num(0)>>, <<>>, ConstantScoreQuery_boost(instances[r], Num(0)))

Q_nested ==
    \E path \in Paths, q \in Receivers :
        /\ CanBuild
        /\ Returned(0, "Q.nested", <<path>>, <<q>>,
                    NestedQuery_constructor(path, instances[q]))

Nested_query ==
    \E r \in OfKind("NestedQuery"), q \in Receivers :
        /\ CanBuild
        /\ Returned(r, "query", <<>>, <<q>>,
                    SetSubQuery(instances[r], "nested", "query", instances[q], "query"))

Nested_scoreMode ==
    \E r \in OfKind("NestedQuery"), v \in Names :
        /\ CanBuild
        /\ Returned(r, "scoreMode", <<v>>, <<>>,
                    SetOption(instances[r], "nested", "score_mode", v, "scoreMode"))

Nested_boost ==
    \E r \in OfKind("NestedQuery"), v \in BoostValues :
        /\ CanBuild
        /\ Returned(r, "boost", <<v>>, <<>>,
                    SetOption(instances[r], "nested", "boost", v, "boost"))

Nested_ignoreUnmapped ==
    \E r \in OfKind("NestedQuery"), v \in Flags :
        /\ CanBuild
        /\ Returned(r, "ignoreUnmapped", <<v>>, <<>>,
                    SetOption(instances[r], "nested", "ignore_unmapped", v, "ignoreUnmapped"))

Nested_innerHits ==
    \E r \in OfKind("NestedQuery"), v \in {Obj1("name", n) : n \in Names} :
        /\ CanBuild
        /\ Returned(r, "innerHits", <<v>>, <<>>,
                    SetOption(instances[r], "nested", "inner_hits", v, "innerHits"))

Q_scriptScore ==
    \E q \in Receivers, script \in Scripts :
        /\ CanBuild
        /\ Returned(0, "Q.scriptScore", <<script>>, <<q>>,
                    ScriptScoreQuery_constructor(instances[q], script))

ScriptScore_query ==
    \E r \in OfKind("ScriptScoreQuery"), q \in Receivers :
        /\ CanBuild
        /\ Returned(r, "query", <<>>, <<q>>,
                    SetSubQuery(instances[r], "script_score", "query", instances[q], "query"))

ScriptScore_script ==
    \E r \in OfKind("ScriptScoreQuery"), v \in {Obj1("source", n) : n \in Names} :
        /\ CanBuild
        /\ Returned(r, "script", <<v>>, <<>>, ScriptScoreQuery_script(instances[r], v))

ScriptScore_minScore ==
    \E r \in OfKind("ScriptScoreQuery"), v \in Counts :
        /\ CanBuild
        /\ Returned(r, "minScore", <<v>>, <<>>,
                    SetOption(instances[r], "script_score", "min_score", v, "minScore"))

ScriptScore_boost ==
    \E r \in OfKind("ScriptScoreQuery"), v \in BoostValues :
        /\ CanBuild
        /\ Returned(r, "boost", <<v>>, <<>>,
                    SetOption(instances[r], "script_score", "boost", v, "boost"))

Q_functionScore ==
    \/ /\ CanBuild
       /\ Returned(0, "Q.functionScore", <<>>, <<>>, FunctionScoreQuery_constructor(NoQuery))
    \/ \E q \in Receivers :
        /\ CanBuild
        /\ Returned(0, "Q.functionScore", <<>>, <<q>>,
                    FunctionScoreQuery_constructor(instances[q]))

FunctionScore_query ==
    \E r \in OfKind("FunctionScoreQuery"), q \in Receivers :
        /\ CanBuild
        /\ Returned(r, "query", <<>>, <<q>>,
                    SetSubQuery(instances[r], "function_score", "query", instances[q], "query"))

FunctionScore_boost ==
    \E r \in OfKind("FunctionScoreQuery"), v \in BoostValues :
        /\ CanBuild
        /\ Returned(r, "boost", <<v>>, <<>>,
                    SetOption(instances[r], "function_score", "boost", v, "boost"))

FunctionScore_addFunction ==
    \E r \in OfKind("FunctionScoreQuery"), v \in FunctionConfigs :
        /\ CanBuild
        /\ Returned(r, "addFunction", <<v>>, <<>>,
                    FunctionScoreQuery_addFunction(instances[r], v))

FunctionScore_functions ==
    \E r \in OfKind("FunctionScoreQuery"), v \in {Arr(<<c>>) : c \in FunctionConfigs} :
        /\ CanBuild
        /\ Returned(r, "functions", <<v>>, <<>>,
                    SetOption(instances[r], "function_score", "functions", v, "functions"))

FunctionScore_maxBoost ==
    \E r \in OfKind("FunctionScoreQuery"), v \in Counts :
        /\ CanBuild
        /\ Returned(r, "maxBoost", <<v>>, <<>>,
                    SetOption(instances[r], "function_score", "max_boost", v, "maxBoost"))

FunctionScore_scoreMode ==
    \E r \in OfKind("FunctionScoreQuery"), v \in Names :
        /\ CanBuild
        /\ Returned(r, "scoreMode", <<v>>, <<>>,
                    SetOption(instances[r], "function_score", "score_mode", v, "scoreMode"))

FunctionScore_boostMode ==
    \E r \in OfKind("FunctionScoreQuery"), v \in Names :
        /\ CanBuild
        /\ Returned(r, "boostMode", <<v>>, <<>>,
                    SetOption(instances[r], "function_score", "boost_mode", v, "boostMode"))

FunctionScore_minScore ==
    \E r \in OfKind("FunctionScoreQuery"), v \in Counts :
        /\ CanBuild
        /\ Returned(r, "minScore", <<v>>, <<>>,
                    SetOption(instances[r], "function_score", "min_score", v, "minScore"))

FunctionScore_randomScore ==
    \E r \in OfKind("FunctionScoreQuery"), seed \in {Undef, Num(10)}, field \in {Undef, Str("f")} :
        /\ CanBuild
        /\ Returned(r, "randomScore", <<seed, field>>, <<>>,
                    FunctionScoreQuery_randomScore(instances[r], seed, field))

FunctionScore_fieldValueFactor ==
    \E r \in OfKind("FunctionScoreQuery"), factor \in {Undef, Num(20)} :
        /\ CanBuild
        /\ Returned(r, "fieldValueFactor", <<Str("f"), factor, Undef, Undef>>, <<>>,
                    FunctionScoreQuery_fieldValueFactor(instances[r], Str("f"), factor,
                                                        Undef, Undef))

FunctionScore_scriptScore ==
    \E r \in OfKind("FunctionScoreQuery"), v \in Scripts :
        /\ CanBuild
        /\ Returned(r, "scriptScore", <<v>>, <<>>,
                    FunctionScoreQuery_scriptScore(instances[r], v))

Q_queryString ==
    \E text \in Texts :
        /\ CanBuild
        /\ Returned(0, "Q.queryString", <<text>>, <<>>, QueryStringQuery_constructor(text))

QueryString_fields ==
    \E r \in OfKind("QueryStringQuery"), v \in {Arr(<<Str(f)>>) : f \in Fields} :
        /\ CanBuild
        /\ Returned(r, "fields", <<v>>, <<>>,
                    SetOption(instances[r], "query_string", "fields", v, "fields"))

QueryString_defaultOperator ==
    \E r \in OfKind("QueryStringQuery"), v \in {Str("AND"), Str("OR")} :
        /\ CanBuild
        /\ Returned(r, "defaultOperator", <<v>>, <<>>,
                    SetOption(instances[r], "query_string", "default_operator", v, "defaultOperator"))

QueryString_analyzer ==
    \E r \in OfKind("QueryStringQuery"), v \in Names :
        /\ CanBuild
        /\ Returned(r, "analyzer", <<v>>, <<>>,
                    SetOption(instances[r], "query_string", "analyzer", v, "analyzer"))

QueryString_boost ==
    \E r \in OfKind("QueryStringQuery"), v \in BoostValues :
        /\ CanBuild
        /\ Returned(r, "boost", <<v>>, <<>>,
                    SetOption(instances[r], "query_string", "boost", v, "boost"))

Q_simpleQueryString ==
    \E text \in Texts :
        /\ CanBuild
        /\ Returned(0, "Q.simpleQueryString", <<text>>, <<>>,
                    SimpleQueryStringQuery_constructor(text))

SimpleQueryString_fields ==
    \E r \in OfKind("SimpleQueryStringQuery"), v \in {Arr(<<Str(f)>>) : f \in Fields} :
        /\ CanBuild
        /\ Returned(r, "fields", <<v>>, <<>>,
                    SetOption(instances[r], "simple_query_string", "fields", v, "fields"))

SimpleQueryString_defaultOperator ==
    \E r \in OfKind("SimpleQueryStringQuery"), v \in {Str("AND"), Str("OR")} :
        /\ CanBuild
        /\ Returned(r, "defaultOperator", <<v>>, <<>>,
                    SetOption(instances[r], "simple_query_string", "default_operator", v, "defaultOperator"))

SimpleQueryString_analyzer ==
    \E r \in OfKind("SimpleQueryStringQuery"), v \in Names :
        /\ CanBuild
        /\ Returned(r, "analyzer", <<v>>, <<>>,
                    SetOption(instances[r], "simple_query_string", "analyzer", v, "analyzer"))

SimpleQueryString_boost ==
    \E r \in OfKind("SimpleQueryStringQuery"), v \in BoostValues :
        /\ CanBuild
        /\ Returned(r, "boost", <<v>>, <<>>,
                    SetOption(instances[r], "simple_query_string", "boost", v, "boost"))

Q_moreLikeThis ==
    \E f \in Fields, text \in Texts :
        /\ CanBuild
        /\ Returned(0, "Q.moreLikeThis", <<Str(f), text>>, <<>>,
                    MoreLikeThisQuery_constructor(Str(f), text))

MoreLikeThis_fields ==
    \E r \in OfKind("MoreLikeThisQuery"), v \in {Str("g"), Arr(<<Str("f"), Str("g")>>)} :
        /\ CanBuild
        /\ Returned(r, "fields", <<v>>, <<>>, MoreLikeThisQuery_fields(instances[r], v))

MoreLikeThis_like ==
    \E r \in OfKind("MoreLikeThisQuery"), v \in {Str("t"), Arr(<<Str("t"), Str("u")>>)} :
        /\ CanBuild
        /\ Returned(r, "like", <<v>>, <<>>, MoreLikeThisQuery_like(instances[r], v))

MoreLikeThis_analyzer ==
    \E r \in OfKind("MoreLikeThisQuery"), v \in Names :
        /\ CanBuild
        /\ Returned(r, "analyzer", <<v>>, <<>>,
                    SetOption(instances[r], "more_like_this", "analyzer", v, "analyzer"))

MoreLikeThis_boost ==
    \E r \in OfKind("MoreLikeThisQuery"), v \in BoostValues :
        /\ CanBuild
        /\ Returned(r, "boost", <<v>>, <<>>,
                    SetOption(instances[r], "more_like_this", "boost", v, "boost"))

Q_matchPhrasePrefix ==
    \E f \in Fields, text \in Texts :
        /\ CanBuild
        /\ Returned(0, "Q.matchPhrasePrefix", <<Str(f), text>>, <<>>,
                    MatchPhrasePrefixQuery_constructor(f, text))

MatchPhrasePrefix_analyzer ==
    \E r \in OfKind("MatchPhrasePrefixQuery"), v \in Names :
        /\ CanBuild
        /\ Returned(r, "analyzer", <<v>>, <<>>,
                    MatchPhrasePrefixQuery_set(instances[r], "analyzer", v, "analyzer"))

MatchPhrasePrefix_maxExpansions ==
    \E r \in OfKind("MatchPhrasePrefixQuery"), v \in Counts :
        /\ CanBuild
        /\ Returned(r, "maxExpansions", <<v>>, <<>>,
                    MatchPhrasePrefixQuery_set(instances[r], "max_expansions", v, "maxExpansions"))

MatchPhrasePrefix_slop ==
    \E r \in OfKind("MatchPhrasePrefixQuery"), v \in Counts :
        /\ CanBuild
        /\ Returned(r, "slop", <<v>>, <<>>,
                    MatchPhrasePrefixQuery_set(instances[r], "slop", v, "slop"))

MatchPhrasePrefix_boost ==
    \E r \in OfKind("MatchPhrasePrefixQuery"), v \in BoostValues :
        /\ CanBuild
        /\ Returned(r, "boost", <<v>>, <<>>,
                    MatchPhrasePrefixQuery_set(instances[r], "boost", v, "boost"))

Q_termsSet ==
    \E f \in Fields, terms \in TermLists :
        /\ CanBuild
        /\ Returned(0, "Q.termsSet", <<Str(f), terms>>, <<>>,
                    TermsSetQuery_constructor(f, terms))

TermsSet_terms ==
    \E r \in OfKind("TermsSetQuery"), v \in TermLists :
        /\ CanBuild
        /\ Returned(r, "terms", <<v>>, <<>>, TermsSetQuery_terms(instances[r], v))

TermsSet_addTerms ==
    \E r \in OfKind("TermsSetQuery"), t \in {Str("b"), Str("c")} :
        /\ CanBuild
        /\ Returned(r, "addTerms", <<t>>, <<>>, TermsSetQuery_addTerms(instances[r], <<t>>))

TermsSet_minimumShouldMatchField ==
    \E r \in OfKind("TermsSetQuery"), v \in Names :
        /\ CanBuild
        /\ Returned(r, "minimumShouldMatchField", <<v>>, <<>>,
                    TermsSetQuery_minimumShouldMatchField(instances[r], v))

TermsSet_boost ==
    \E r \in OfKind("TermsSetQuery"), v \in BoostValues :
        /\ CanBuild
        /\ Returned(r, "boost", <<v>>, <<>>, TermsSetQuery_boost(instances[r], v))

Q_matchAll ==
    /\ CanBuild
    /\ Returned(0, "Q.matchAll", <<>>, <<>>, MatchAllQuery_constructor)

MatchAll_boost ==
    \E r \in OfKind("MatchAllQuery"), v \in BoostValues :
        /\ CanBuild
        /\ Returned(r, "boost", <<v>>, <<>>, MatchAllQuery_boost(instances[r], v))

Conditions == {Bool(TRUE), Bool(FALSE), Num(0), Num(10), Str(""), Str("x"), Null, Undef}
Callbacks == {"q => q.boost(2)", "q => q"}

When ==
    \E r \in OfKind("TermQuery") \cup OfKind("BoolQuery"), c \in Conditions, fn \in Callbacks :
        /\ CanBuild
        /\ Returned(r, "when", <<c, Str(fn)>>, <<>>, Query_when(instances[r], c, fn))

Unless ==
    \E r \in OfKind("TermQuery") \cup OfKind("BoolQuery"), c \in Conditions, fn \in Callbacks :
        /\ CanBuild
        /\ Returned(r, "unless", <<c, Str(fn)>>, <<>>, Query_unless(instances[r], c, fn))

\* must([]) and must([a, b])
Bool_mustArray ==
    \E r \in OfKind("BoolQuery") :
        \E qs \in {<<>>} \cup {<<a, b>> : a, b \in Receivers} :
            /\ CanBuild
            /\ Returned(r, "must", <<>>, qs,
                        BoolQuery_must(instances[r], Tuple([i \in 1..Len(qs) |-> instances[qs[i]]])))

Bool_minimumShouldMatch ==
    \E r \in OfKind("BoolQuery"), v \in Counts :
        /\ CanBuild
        /\ Returned(r, "minimumShouldMatch", <<v>>, <<>>,
                    BoolQuery_minimumShouldMatch(instances[r], v))

(***************************************************************************)
(* The calls on range queries.                                             *)
(***************************************************************************)
Q_range ==
    \E f \in Fields :
        /\ CanBuild
        /\ Returned(0, "Q.range", <<Str(f)>>, <<>>, RangeQuery_constructor(f))

Range_gte ==
    \E r \in OfKind("RangeQuery"), v \in Counts :
        /\ CanBuild
        /\ Returned(r, "gte", <<v>>, <<>>, RangeQuery_set(instances[r], "gte", v, "gte"))

Range_gt ==
    \E r \in OfKind("RangeQuery"), v \in {Num(10)} :
        /\ CanBuild
        /\ Returned(r, "gt", <<v>>, <<>>, RangeQuery_set(instances[r], "gt", v, "gt"))

Range_lte ==
    \E r \in OfKind("RangeQuery"), v \in {Num(20)} :
        /\ CanBuild
        /\ Returned(r, "lte", <<v>>, <<>>, RangeQuery_set(instances[r], "lte", v, "lte"))

Range_lt ==
    \E r \in OfKind("RangeQuery"), v \in {Num(10)} :
        /\ CanBuild
        /\ Returned(r, "lt", <<v>>, <<>>, RangeQuery_set(instances[r], "lt", v, "lt"))

Range_boost ==
    \E r \in OfKind("RangeQuery"), v \in {Num(20)} :
        /\ CanBuild
        /\ Returned(r, "boost", <<v>>, <<>>, RangeQuery_set(instances[r], "boost", v, "boost"))

Range_format ==
    \E r \in OfKind("RangeQuery"), v \in {Str("yyyy")} :
        /\ CanBuild
        /\ Returned(r, "format", <<v>>, <<>>, RangeQuery_set(instances[r], "format", v, "format"))

Range_timeZone ==
    \E r \in OfKind("RangeQuery"), v \in {Str("UTC")} :
        /\ CanBuild
        /\ Returned(r, "timeZone", <<v>>, <<>>, RangeQuery_set(instances[r], "time_zone", v, "timeZone"))

Range_relation ==
    \E r \in OfKind("RangeQuery"), v \in {Str("WITHIN")} :
        /\ CanBuild
        /\ Returned(r, "relation", <<v>>, <<>>, RangeQuery_set(instances[r], "relation", v, "relation"))

\* between(min, max), between(min, max, true), between(min, max, false)
Range_between ==
    \E r \in OfKind("RangeQuery"), inclusive \in {Undef, Bool(TRUE), Bool(FALSE)} :
        /\ CanBuild
        /\ Returned(r, "between", <<Num(10), Num(20), inclusive>>, <<>>,
                    RangeQuery_between(instances[r], Num(10), Num(20), inclusive))

\* a bound given as null or undefined: gte(null), lt(undefined), ...
Range_noValue ==
    \E r \in OfKind("RangeQuery"), m \in {"gte", "gt", "lte", "lt"}, v \in {Null, Undef} :
        /\ CanBuild
        /\ Returned(r, m, <<v>>, <<>>, RangeQuery_set(instances[r], m, v, m))

(***************************************************************************)
(* The calls on the combinators: no, one or two term queries.             *)
(***************************************************************************)
ArgumentLists ==
    {<<>>} \cup {<<a>> : a \in OfKind("TermQuery")}
           \cup {<<a, b>> : a, b \in OfKind("TermQuery")}

Queries(qs) == Tuple([i \in 1..Len(qs) |-> instances[qs[i]]])

Combine_and ==
    \E qs \in ArgumentLists :
        /\ CanBuild
        /\ Returned(0, "Q.and", <<>>, qs, Q_and(Queries(qs)))

Combine_or ==
    \E qs \in ArgumentLists :
        /\ CanBuild
        /\ Returned(0, "Q.or", <<>>, qs, Q_or(Queries(qs)))

Combine_filter ==
    \E qs \in ArgumentLists :
        /\ CanBuild
        /\ Returned(0, "Q.filter", <<>>, qs, Q_filter(Queries(qs)))

Combine_must ==
    \E qs \in ArgumentLists :
        /\ CanBuild
        /\ Returned(0, "Q.must", <<>>, qs, Q_must(Queries(qs)))

Combine_should ==
    \E qs \in ArgumentLists :
        /\ CanBuild
        /\ Returned(0, "Q.should", <<>>, qs, Q_should(Queries(qs)))

Combine_not ==
    \E q \in OfKind("TermQuery") :
        /\ CanBuild
        /\ Returned(0, "Q.not", <<>>, <<q>>, Q_not(instances[q]))

\* gt, lte and lt called with another value than in Range_gt, Range_lte, Range_lt
Range_otherBound ==
    \E r \in OfKind("RangeQuery"), m \in {"gt", "lte", "lt"} :
        /\ CanBuild
        /\ Returned(r, m, <<Num(30)>>, <<>>, RangeQuery_set(instances[r], m, Num(30), m))

\* boost(-1) on a term, a range or a bool query
Boost_negative ==
    \E r \in OfKind("TermQuery") \cup OfKind("RangeQuery") \cup OfKind("BoolQuery") :
        /\ CanBuild
        /\ Returned(r, "boost", <<Num(0 - 10)>>, <<>>,
                    CASE instances[r].kind = "TermQuery" ->
                            TermQuery_boost(instances[r], Num(0 - 10))
                      [] instances[r].kind = "RangeQuery" ->
                            RangeQuery_set(instances[r], "boost", Num(0 - 10), "boost")
                      [] instances[r].kind = "BoolQuery" ->
                            BoolQuery_boost(instances[r], Num(0 - 10)))

(***************************************************************************)
(* The calls on terms queries.                                             *)
(***************************************************************************)
Q_terms ==
    \E f \in Fields, vs \in TermLists :
        /\ CanBuild
        /\ Returned(0, "Q.terms", <<Str(f), vs>>, <<>>, TermsQuery_constructor(f, vs))

Terms_boost ==
    \E r \in OfKind("TermsQuery"), v \in BoostValues :
        /\ CanBuild
        /\ Returned(r, "boost", <<v>>, <<>>, TermsQuery_boost(instances[r], v))

Terms_addTerms ==
    \E r \in OfKind("TermsQuery"), ts \in {<<Str("c")>>, <<Str("c"), Str("a")>>} :
        /\ CanBuild
        /\ Returned(r, "addTerms", ts, <<>>, TermsQuery_addTerms(instances[r], ts))

(***************************************************************************)
(* The calls on exists queries.                                            *)
(***************************************************************************)
Exists_viaRange ==
    \E f \in Fields :
        /\ CanBuild
        /\ Returned(0, "Q.exists", <<Str(f)>>, <<>>, Q_exists(f))

Exists_viaExistsQuery ==
    \E f \in Fields :
        /\ CanBuild
        /\ Returned(0, "Q.exists", <<Str(f)>>, <<>>, Q_exists_ExistsQuery(f))

Exists_boost ==
    \E r \in OfKind("ExistsQuery"), v \in BoostValues :
        /\ CanBuild
        /\ Returned(r, "boost", <<v>>, <<>>, ExistsQuery_boost(instances[r], v))

(***************************************************************************)
(* The calls on the term-like variants.                                    *)
(***************************************************************************)
Q_match ==
    \E f \in Fields, v \in Texts :
        /\ CanBuild
        /\ Returned(0, "Q.match", <<Str(f), v>>, <<>>, MatchQuery_constructor(f, v))

Match_operator ==
    \E r \in OfKind("MatchQuery"), v \in {Str("and"), Str("or")} :
        /\ CanBuild
        /\ Returned(r, "operator", <<v>>, <<>>,
                    Promote(instances[r], "match", "query", "operator", v, "operator", FALSE))

Match_boost ==
    \E r \in OfKind("MatchQuery"), v \in BoostValues :
        /\ CanBuild
        /\ Returned(r, "boost", <<v>>, <<>>,
                    Promote(instances[r], "match", "query", "boost", v, "boost", FALSE))

Q_matchPhrase ==
    \E f \in Fields, v \in Texts :
        /\ CanBuild
        /\ Returned(0, "Q.matchPhrase", <<Str(f), v>>, <<>>, MatchPhraseQuery_constructor(f, v))

MatchPhrase_boost ==
    \E r \in OfKind("MatchPhraseQuery"), v \in BoostValues :
        /\ CanBuild
        /\ Returned(r, "boost", <<v>>, <<>>,
                    Promote(instances[r], "match_phrase", "query", "boost", v, "boost", TRUE))

MatchPhrase_slop ==
    \E r \in OfKind("MatchPhraseQuery"), v \in Counts :
        /\ CanBuild
        /\ Returned(r, "slop", <<v>>, <<>>,
                    Promote(instances[r], "match_phrase", "query", "slop", v, "slop", TRUE))

Q_wildcard ==
    \E f \in Fields, v \in Texts :
        /\ CanBuild
        /\ Returned(0, "Q.wildcard", <<Str(f), v>>, <<>>, WildcardQuery_constructor(f, v))

Wildcard_boost ==
    \E r \in OfKind("WildcardQuery"), v \in BoostValues :
        /\ CanBuild
        /\ Returned(r, "boost", <<v>>, <<>>,
                    Promote(instances[r], "wildcard", "value", "boost", v, "boost", TRUE))

Wildcard_caseInsensitive ==
    \E r \in OfKind("WildcardQuery"), v \in Flags :
        /\ CanBuild
        /\ Returned(r, "caseInsensitive", <<v>>, <<>>,
                    Promote(instances[r], "wildcard", "value", "case_insensitive", v, "caseInsensitive", TRUE))

Q_prefix ==
    \E f \in Fields, v \in Texts :
        /\ CanBuild
        /\ Returned(0, "Q.prefix", <<Str(f), v>>, <<>>, PrefixQuery_constructor(f, v))

Prefix_boost ==
    \E r \in OfKind("PrefixQuery"), v \in BoostValues :
        /\ CanBuild
        /\ Returned(r, "boost", <<v>>, <<>>,
                    Promote(instances[r], "prefix", "value", "boost", v, "boost", TRUE))

Prefix_rewrite ==
    \E r \in OfKind("PrefixQuery"), v \in Names :
        /\ CanBuild
        /\ Returned(r, "rewrite", <<v>>, <<>>,
                    Promote(instances[r], "prefix", "value", "rewrite", v, "rewrite", TRUE))

Q_fuzzy ==
    \E f \in Fields, v \in Texts \cup {Num(0)} :
        /\ CanBuild
        /\ Returned(0, "Q.fuzzy", <<Str(f), v>>, <<>>, FuzzyQuery_constructor(f, v))

Fuzzy_fuzziness ==
    \E r \in OfKind("FuzzyQuery"), v \in Counts :
        /\ CanBuild
        /\ Returned(r, "fuzziness", <<v>>, <<>>,
                    Promote(instances[r], "fuzzy", "value", "fuzziness", v, "fuzziness", TRUE))

Fuzzy_boost ==
    \E r \in OfKind("FuzzyQuery"), v \in BoostValues :
        /\ CanBuild
        /\ Returned(r, "boost", <<v>>, <<>>,
                    Promote(instances[r], "fuzzy", "value", "boost", v, "boost", TRUE))

Q_regexp ==
    \E f \in Fields, v \in Texts :
        /\ CanBuild
        /\ Returned(0, "Q.regexp", <<Str(f), v>>, <<>>, RegexpQuery_constructor(f, v))

Regexp_boost ==
    \E r \in OfKind("RegexpQuery"), v \in BoostValues :
        /\ CanBuild
        /\ Returned(r, "boost", <<v>>, <<>>,
                    Promote(instances[r], "regexp", "value", "boost", v, "boost", TRUE))

Regexp_flags ==
    \E r \in OfKind("RegexpQuery"), v \in Names :
        /\ CanBuild
        /\ Returned(r, "flags", <<v>>, <<>>,
                    Promote(instances[r], "regexp", "value", "flags", v, "flags", TRUE))

(***************************************************************************)
(* The caller's references.  held[h] is a node the caller holds: the value *)
(* of an accessor, the result of toJSON(), or an object it passed to a     *)
(* call.  A link <<i, hp, ip>> says that the node at path hp of held[h] is *)
(* the node at path ip of the body of instances[i]: the same object, so    *)
(* that a write to one is a write to the other.                            *)
(***************************************************************************)
Noted(method, r, args) ==
    /\ last' = [method |-> method, recv |-> r, args |-> args, subs |-> <<>>,
                threw |-> FALSE, result |-> 0, before |-> Before(r)]
    /\ UNCHANGED <<instances, queryIdCounter, created, calls, limit>>

Hold(origin, r, value, links) ==
    held' = Append(held, [origin |-> origin, of |-> r, value |-> value,
                          links |-> links, writes |-> 0])

\* const ids = Q.ids(...)
Q_ids ==
    \E ids \in {Str("1"), Arr(<<Str("1"), Str("2")>>)} :
        /\ CanBuild
        /\ Returned(0, "Q.ids", <<ids>>, <<>>, IdsQuery_constructor(ids))

\* const node = q.getIds(), q.getPositive(), ...
Get_ ==
    \E r \in Receivers, a \in Accessors :
        /\ CanBuild
        /\ instances[r].kind = a[1]
        /\ LET node == Accessor(instances[r], a[2])
               value == At(instances[r]._body, node)
           IN /\ Mutable(value)
              /\ Hold("accessor", r, value, {<<r, <<>>, node>>})
              /\ Noted(a[2], r, <<>>)

\* const json = q.toJSON()
ToJSON ==
    \E r \in Receivers :
        /\ CanBuild
        /\ Hold("toJSON", r, toJSON(instances[r]),
                {<<r, p, p>> : p \in toJSON_kept(instances[r])})
        /\ Noted("toJSON", r, <<>>)

\* the places of the body of an instance where the value arg sits
Occurrences(body, arg) == {p \in Nodes(body) : At(body, p) = arg}

\* the caller still holds the object it passed as argument k of the call
\* that built instances[c]
Keep ==
    \E c \in Receivers :
        \E k \in 1..Len(calls[c].args) :
            /\ CanBuild
            /\ Mutable(calls[c].args[k])
            /\ LET arg == calls[c].args[k]
                   body == instances[c]._body
                   kept == Query_constructor_kept(body)
                   at == Occurrences(body, arg)
               IN /\ Hold("argument", c, arg,
                          {<<c, <<>>, b>> : b \in {b \in at : \E q \in kept : IsPrefix(q, b)}}
                          \cup UNION {{<<c, Rest(b, q), q>> : q \in {q \in kept : IsPrefix(b, q)}} :
                                         b \in at})
                  /\ Noted("keep", c, <<arg>>)

\* the places of a held value the caller can write to: the keys of its
\* objects, the first position of its arrays and the position past their end
Slots(v) ==
    UNION {LET node == At(v, n)
           IN IF IsArr(node)
              THEN {n \o <<I(i)>> : i \in {1, Len(node[2]) + 1}}
              ELSE {n \o <<K(node[2][i][1])>> : i \in 1..Len(node[2])} : n \in Nodes(v)}

\* the nodes of instances that a write at path sub of held[h] writes to
Targets(h, sub) ==
    {<<l[1], l[3] \o Rest(l[2], sub)>> :
        l \in {l \in held[h].links : IsPrefix(l[2], Front(sub))}}

RECURSIVE AssignAll(_, _, _)
AssignAll(body, paths, x) ==
    IF paths = {} THEN body
    ELSE LET p == CHOOSE p \in paths : TRUE
         IN AssignAll(Assign(body, p, x), paths \ {p}, x)

\* node.key = x, node[0] = x, node.push(x).  A write to a frozen node
\* changes nothing (and throws a TypeError in strict mode).
Write ==
    \E h \in 1..Len(held) :
        \E sub \in Slots(held[h].value), x \in {Str("z")} :
            /\ CanBuild
            /\ held' = [held EXCEPT ![h].value = Assign(held[h].value, sub, x),
                                    ![h].writes = held[h].writes + 1]
            /\ instances' =
                  Tuple([i \in 1..Len(instances) |->
                      LET paths == {t[2] : t \in {t \in Targets(h, sub) :
                                       /\ t[1] = i
                                       /\ Front(t[2]) \notin
                                             Query_constructor_frozen(instances[i]._body)}}
                      IN [instances[i] EXCEPT !._body = AssignAll(instances[i]._body, paths, x)]])
            /\ last' = [method |-> "write", recv |-> 0, args |-> <<h, sub, x>>, subs |-> <<>>,
                        threw |-> FALSE, result |-> 0, before |-> NoInstance]
            /\ UNCHANGED <<queryIdCounter, created, calls, limit>>

Start(n) ==
    /\ instances = <<>>
    /\ held = <<>>
    /\ queryIdCounter = 0
    /\ created = <<>>
    /\ calls = <<>>
    /\ limit = n
    /\ last = [method |-> "none", recv |-> 0, args |-> <<>>, subs |-> <<>>,
               threw |-> FALSE, result |-> 0, before |-> NoInstance]

(***************************************************************************)
(* The specifications.  Each takes the calls of one family of variants;    *)
(* the caller stops when it holds the family's bound of objects.           *)
(***************************************************************************)
MaxTerm == 5
MaxCompose == 4

InitTerm == Start(MaxTerm)

NextTerm ==
    \/ Q_term
    \/ Term_boost
    \/ Term_caseInsensitive

SpecTerm == InitTerm /\ [][NextTerm]_vars

InitCompose == Start(MaxCompose)

NextCompose ==
    \/ Q_term
    \/ Q_bool
    \/ Q_boosting2
    \/ Q_disMax
    \/ Q_constantScore
    \/ Q_nested
    \/ Q_scriptScore
    \/ Q_functionScore
    \/ Term_boost
    \/ Bool_must
    \/ Bool_should
    \/ Bool_filter
    \/ Bool_mustNot
    \/ Bool_boost

SpecCompose == InitCompose /\ [][NextCompose]_vars

\* the two range-checked ratios: negative_boost and tie_breaker
MaxRange == 3

InitRange == Start(MaxRange)

NextRange ==
    \/ Q_term
    \/ Q_boosting
    \/ Boosting_negativeBoost
    \/ Q_disMax
    \/ DisMax_tieBreaker

SpecRange == InitRange /\ [][NextRange]_vars

\* the compounds that wrap sub-queries
MaxScore == 3

InitScore == Start(MaxScore)

NextScore ==
    \/ Q_term
    \/ Q_boosting
    \/ Boosting_positive
    \/ Boosting_negative
    \/ Boosting_negativeBoost
    \/ Q_disMax
    \/ DisMax_query
    \/ DisMax_addQueries
    \/ DisMax_queries
    \/ DisMax_tieBreaker
    \/ DisMax_boost
    \/ Q_constantScore
    \/ ConstantScore_filter
    \/ ConstantScore_boost
    \/ Q_nested
    \/ Nested_query
    \/ Nested_scoreMode
    \/ Nested_boost
    \/ Nested_ignoreUnmapped
    \/ Nested_innerHits
    \/ Q_scriptScore
    \/ ScriptScore_query
    \/ ScriptScore_script
    \/ ScriptScore_minScore
    \/ ScriptScore_boost
    \/ Q_functionScore
    \/ FunctionScore_query
    \/ FunctionScore_boost
    \/ FunctionScore_addFunction
    \/ FunctionScore_functions
    \/ FunctionScore_maxBoost
    \/ FunctionScore_scoreMode
    \/ FunctionScore_boostMode
    \/ FunctionScore_minScore
    \/ FunctionScore_randomScore
    \/ FunctionScore_fieldValueFactor
    \/ FunctionScore_scriptScore

SpecScore == InitScore /\ [][NextScore]_vars

\* the text queries and their options
MaxOptions == 3

InitOptions == Start(MaxOptions)

NextOptions ==
    \/ Q_queryString
    \/ QueryString_fields
    \/ QueryString_defaultOperator
    \/ QueryString_analyzer
    \/ QueryString_boost
    \/ Q_simpleQueryString
    \/ SimpleQueryString_fields
    \/ SimpleQueryString_defaultOperator
    \/ SimpleQueryString_analyzer
    \/ SimpleQueryString_boost
    \/ Q_moreLikeThis
    \/ MoreLikeThis_fields
    \/ MoreLikeThis_like
    \/ MoreLikeThis_analyzer
    \/ MoreLikeThis_boost
    \/ Q_matchPhrasePrefix
    \/ MatchPhrasePrefix_analyzer
    \/ MatchPhrasePrefix_maxExpansions
    \/ MatchPhrasePrefix_slop
    \/ MatchPhrasePrefix_boost
    \/ Q_termsSet
    \/ TermsSet_terms
    \/ TermsSet_addTerms
    \/ TermsSet_minimumShouldMatchField
    \/ TermsSet_boost

SpecOptions == InitOptions /\ [][NextOptions]_vars

\* every variant together
MaxAll == 3

InitAll == Start(MaxAll)

NextAll ==
    \/ Q_term
    \/ Q_bool
    \/ Q_boosting
    \/ Term_boost
    \/ Term_caseInsensitive
    \/ Bool_must
    \/ Bool_should
    \/ Bool_filter
    \/ Bool_mustNot
    \/ Bool_boost
    \/ Boosting_positive
    \/ Boosting_negative
    \/ Boosting_negativeBoost
    \/ Q_disMax
    \/ DisMax_query
    \/ DisMax_addQueries
    \/ DisMax_queries
    \/ DisMax_tieBreaker
    \/ DisMax_boost
    \/ Q_constantScore
    \/ ConstantScore_filter
    \/ ConstantScore_boost
    \/ Q_nested
    \/ Nested_query
    \/ Nested_scoreMode
    \/ Nested_boost
    \/ Nested_ignoreUnmapped
    \/ Nested_innerHits
    \/ Q_scriptScore
    \/ ScriptScore_query
    \/ ScriptScore_script
    \/ ScriptScore_minScore
    \/ ScriptScore_boost
    \/ Q_functionScore
    \/ FunctionScore_query
    \/ FunctionScore_boost
    \/ FunctionScore_addFunction
    \/ FunctionScore_functions
    \/ FunctionScore_maxBoost
    \/ FunctionScore_scoreMode
    \/ FunctionScore_boostMode
    \/ FunctionScore_minScore
    \/ FunctionScore_randomScore
    \/ FunctionScore_fieldValueFactor
    \/ FunctionScore_scriptScore
    \/ Q_queryString
    \/ QueryString_fields
    \/ QueryString_defaultOperator
    \/ QueryString_analyzer
    \/ QueryString_boost
    \/ Q_simpleQueryString
    \/ SimpleQueryString_fields
    \/ SimpleQueryString_defaultOperator
    \/ SimpleQueryString_analyzer
    \/ SimpleQueryString_boost
    \/ Q_moreLikeThis
    \/ MoreLikeThis_fields
    \/ MoreLikeThis_like
    \/ MoreLikeThis_analyzer
    \/ MoreLikeThis_boost
    \/ Q_matchPhrasePrefix
    \/ MatchPhrasePrefix_analyzer
    \/ MatchPhrasePrefix_maxExpansions
    \/ MatchPhrasePrefix_slop
    \/ MatchPhrasePrefix_boost
    \/ Q_termsSet
    \/ TermsSet_terms
    \/ TermsSet_addTerms
    \/ TermsSet_minimumShouldMatchField
    \/ TermsSet_boost
    \/ Q_matchAll
    \/ MatchAll_boost

SpecAll == InitAll /\ [][NextAll]_vars

\* a few variants, for chains of calls built twice over
MaxTwin == 4

InitTwin == Start(MaxTwin)

NextTwin ==
    \/ Q_term
    \/ Term_boost
    \/ Q_bool
    \/ Bool_must
    \/ Q_queryString
    \/ QueryString_boost
    \/ Q_matchAll
    \/ MatchAll_boost
    \/ Q_nested
    \/ Nested_boost

SpecTwin == InitTwin /\ [][NextTwin]_vars

\* the conditional helpers, on term and bool queries
MaxWhen == 3

InitWhen == Start(MaxWhen)

NextWhen ==
    \/ Q_term
    \/ Q_bool
    \/ Term_boost
    \/ Bool_must
    \/ When
    \/ Unless

SpecWhen == InitWhen /\ [][NextWhen]_vars

MaxLike == 3

InitLike == Start(MaxLike)

NextLike ==
    \/ Q_term
    \/ Term_boost
    \/ Term_caseInsensitive
    \/ Q_match
    \/ Match_operator
    \/ Match_boost
    \/ Q_matchPhrase
    \/ MatchPhrase_boost
    \/ MatchPhrase_slop
    \/ Q_wildcard
    \/ Wildcard_boost
    \/ Wildcard_caseInsensitive
    \/ Q_prefix
    \/ Prefix_boost
    \/ Prefix_rewrite
    \/ Q_fuzzy
    \/ Fuzzy_fuzziness
    \/ Fuzzy_boost
    \/ Q_regexp
    \/ Regexp_boost
    \/ Regexp_flags

SpecLike == InitLike /\ [][NextLike]_vars

MaxBool == 3

InitBool == Start(MaxBool)

NextBool ==
    \/ Q_term
    \/ Q_bool
    \/ Bool_must
    \/ Bool_should
    \/ Bool_filter
    \/ Bool_mustNot
    \/ Bool_mustArray
    \/ Bool_boost
    \/ Bool_minimumShouldMatch

SpecBool == InitBool /\ [][NextBool]_vars

MaxBounds == 5

InitBounds == Start(MaxBounds)

NextBounds ==
    \/ Q_range
    \/ Range_gte
    \/ Range_gt
    \/ Range_lte
    \/ Range_lt

SpecBounds == InitBounds /\ [][NextBounds]_vars

MaxBetween == 4

InitBetween == Start(MaxBetween)

NextBetween ==
    \/ Q_range
    \/ Range_gte
    \/ Range_lt
    \/ Range_boost
    \/ Range_format
    \/ Range_timeZone
    \/ Range_relation
    \/ Range_between

SpecBetween == InitBetween /\ [][NextBetween]_vars

MaxHasBounds == 3

InitHasBounds == Start(MaxHasBounds)

NextHasBounds ==
    \/ Q_range
    \/ Range_gte
    \/ Range_gt
    \/ Range_lte
    \/ Range_lt
    \/ Range_noValue
    \/ Range_boost
    \/ Range_format
    \/ Range_timeZone
    \/ Range_relation
    \/ Range_between

SpecHasBounds == InitHasBounds /\ [][NextHasBounds]_vars

MaxValidate == 3

InitValidate == Start(MaxValidate)

NextValidate ==
    \/ Q_term
    \/ Term_boost
    \/ Q_matchAll
    \/ Q_bool
    \/ Bool_must
    \/ Bool_mustArray
    \/ Bool_boost
    \/ Q_range
    \/ Range_gte
    \/ Range_noValue
    \/ Range_boost

SpecValidate == InitValidate /\ [][NextValidate]_vars

MaxCombine == 3

InitCombine == Start(MaxCombine)

NextCombine ==
    \/ Q_term
    \/ Combine_and
    \/ Combine_or
    \/ Combine_not
    \/ Combine_filter
    \/ Combine_must
    \/ Combine_should

SpecCombine == InitCombine /\ [][NextCombine]_vars

MaxTasks == 4

InitTasks == Start(MaxTasks)

NextTasks ==
    \/ Q_term
    \/ Term_boost
    \/ Term_caseInsensitive
    \/ Q_bool
    \/ Bool_must
    \/ Bool_boost
    \/ ToJSON

SpecTasks == InitTasks /\ [][NextTasks]_vars

MaxExists == 3

InitExists == Start(MaxExists)

NextExists ==
    \/ Exists_viaRange
    \/ Exists_viaExistsQuery
    \/ Exists_boost
    \/ Q_bool
    \/ Bool_filter
    \/ Bool_boost

SpecExists == InitExists /\ [][NextExists]_vars

MaxAgain == 4

InitAgain == Start(MaxAgain)

NextAgain ==
    \/ Q_term
    \/ Term_boost
    \/ Q_bool
    \/ Bool_boost
    \/ Bool_minimumShouldMatch
    \/ Q_range
    \/ Range_gte
    \/ Range_gt
    \/ Range_lte
    \/ Range_lt
    \/ Range_otherBound
    \/ Range_boost
    \/ Boost_negative

SpecAgain == InitAgain /\ [][NextAgain]_vars

MaxConstant == 3

InitConstant == Start(MaxConstant)

NextConstant ==
    \/ Q_term
    \/ Q_constantScore
    \/ ConstantScore_filter
    \/ ConstantScore_boost
    \/ ConstantScore_boostZero

SpecConstant == InitConstant /\ [][NextConstant]_vars

MaxTerms == 3

InitTerms == Start(MaxTerms)

NextTerms ==
    \/ Q_terms
    \/ Terms_boost
    \/ Terms_addTerms

SpecTerms == InitTerms /\ [][NextTerms]_vars

MaxValue == 3

InitValue == Start(MaxValue)

NextValue ==
    \/ Q_termOfEachType
    \/ Term_boost

SpecValue == InitValue /\ [][NextValue]_vars

MaxAlias == 4

InitAlias == Start(MaxAlias)

NextAlias ==
    \/ Q_term
    \/ Q_ids
    \/ Q_termsSet
    \/ TermsSet_terms
    \/ Q_nested
    \/ Q_boosting2
    \/ Q_moreLikeThis
    \/ Q_functionScore
    \/ FunctionScore_addFunction
    \/ Get_
    \/ ToJSON
    \/ Keep
    \/ Write

SpecAlias == InitAlias /\ [][NextAlias]_vars

MaxCopy == 4

InitCopy == Start(MaxCopy)

NextCopy ==
    \/ Q_term
    \/ Q_ids
    \/ Q_termsSet
    \/ TermsSet_terms
    \/ Q_nested
    \/ Q_functionScore
    \/ FunctionScore_addFunction
    \/ ToJSON
    \/ Keep
    \/ Write

SpecCopy == InitCopy /\ [][NextCopy]_vars

(***************************************************************************)
(* The properties.                                                         *)
(***************************************************************************)
\* the last call was a mutator call that returned normally
MutatorReturned == last.recv # 0 /\ ~last.threw
Result == instances[last.result]
Receiver == instances[last.recv]
Elements(a) == IF IsArr(a) THEN {a[2][i] : i \in 1..Len(a[2])} ELSE {}

\* deep equality of two JSON values: arrays element by element in order,
\* mappings by key set and per-key value, whatever the order of the keys
RECURSIVE DeepEqual(_, _)
DeepEqual(a, b) ==
    IF IsObj(a) /\ IsObj(b)
    THEN /\ KeySet(a) = KeySet(b)
         /\ \A k \in KeySet(a) : DeepEqual(Get(a, k), Get(b, k))
    ELSE IF IsArr(a) /\ IsArr(b)
    THEN /\ Len(a[2]) = Len(b[2])
         /\ \A i \in 1..Len(a[2]) : DeepEqual(a[2][i], b[2][i])
    ELSE Tag(a) = Tag(b) /\ a = b

\* C1: a mutator call that returns normally returns an instance that is not
\* its receiver and whose id no instance created earlier has (the temporary
\* wrappers included), and the receiver serializes as it did before the call.
C1_MutatorReturnsNewInstance ==
    MutatorReturned =>
        /\ last.result # last.recv
        /\ \A j \in 1..(Len(created) - 1) : created[j] # Result.id
        /\ \A i \in Receivers \ {last.result} : instances[i].id # Result.id
        /\ toJSON(Receiver) = toJSON(last.before)

\* a mutator whose clone() builds two temporary wrappers has returned
C1_Witness ==
    /\ MutatorReturned
    /\ last.method = "negative"
    /\ Result.id = 5
    /\ Len(created) = 5

\* C2: the instance a mutator returns has the receiver's operations followed
\* by exactly one record, which names the mutator.
C2_OperationsGrowByOne ==
    MutatorReturned =>
        LET ops == Result.operations
            prior == last.before.operations
        IN /\ Len(ops) = Len(prior) + 1
           /\ SubSeq(ops, 1, Len(prior)) = prior
           /\ ops[Len(ops)].method = last.method

\* the sub-query bodies a compound's serialized body holds in its slots
EmbeddedIn(json) ==
    IF Has(json, "bool")
    THEN UNION {Elements(Get(Get(json, "bool"), slot)) :
                    slot \in {"must", "should", "filter", "must_not"}}
    ELSE IF Has(json, "boosting")
    THEN {Get(Get(json, "boosting"), "positive"), Get(Get(json, "boosting"), "negative")}
    ELSE IF Has(json, "dis_max") THEN Elements(Get(Get(json, "dis_max"), "queries"))
    ELSE IF Has(json, "constant_score") THEN {Get(Get(json, "constant_score"), "filter")}
    ELSE IF Has(json, "nested") THEN {Get(Get(json, "nested"), "query")}
    ELSE IF Has(json, "script_score") THEN {Get(Get(json, "script_score"), "query")}
    ELSE IF Has(json, "function_score") THEN {Get(Get(json, "function_score"), "query")}
    ELSE {}

\* C3: a compound that embedded sub-queries serializes as it did when it was
\* built, and holds each sub-query's body as it was at that time, whatever
\* mutators are called afterwards on the sub-query or on what derives from it.
C3_EmbeddedSnapshotIsStable ==
    \A c \in 1..Len(calls) :
        Len(calls[c].subs) > 0 =>
            /\ toJSON(instances[c]) = calls[c].json
            /\ \A k \in 1..Len(calls[c].subs) :
                   calls[c].snaps[k] \in EmbeddedIn(toJSON(instances[c]))

\* one sub-query sits in both slots of two compounds, and a mutator called
\* on it afterwards returned an instance with another body
C3_Witness ==
    /\ Len(calls) = 4
    /\ calls[2].subs = <<1, 1>>
    /\ calls[3].subs = <<1, 1>>
    /\ calls[4].recv = 1
    /\ calls[4].json # calls[2].snaps[1]

\* the option object of a text query, and the key a mutator sets in it
OptionsOf(q) ==
    CASE q.kind = "QueryStringQuery" -> Get(q._body, "query_string")
      [] q.kind = "SimpleQueryStringQuery" -> Get(q._body, "simple_query_string")
      [] q.kind = "MoreLikeThisQuery" -> Get(q._body, "more_like_this")
      [] q.kind = "MatchPhrasePrefixQuery" ->
            Spread(Obj1("query", MatchPhrasePrefixQuery_getQuery(q)),
                   MatchPhrasePrefixQuery_getFieldObject(q))
      [] q.kind = "TermsSetQuery" -> TermsSetQuery_current(q)
      [] q.kind = "NestedQuery" -> Get(q._body, "nested")
      [] q.kind = "ScriptScoreQuery" -> Get(q._body, "script_score")
      [] q.kind = "FunctionScoreQuery" -> Get(q._body, "function_score")
      [] q.kind = "DisMaxQuery" -> Get(q._body, "dis_max")
      [] q.kind = "BoostingQuery" -> Get(q._body, "boosting")
      [] q.kind = "ConstantScoreQuery" -> Get(q._body, "constant_score")

OptionKey(method) ==
    CASE method = "defaultOperator" -> "default_operator"
      [] method = "maxExpansions" -> "max_expansions"
      [] method = "minimumShouldMatchField" -> "minimum_should_match_field"
      [] method = "addTerms" -> "terms"
      [] method = "scoreMode" -> "score_mode"
      [] method = "boostMode" -> "boost_mode"
      [] method = "ignoreUnmapped" -> "ignore_unmapped"
      [] method = "innerHits" -> "inner_hits"
      [] method = "minScore" -> "min_score"
      [] method = "maxBoost" -> "max_boost"
      [] method = "tieBreaker" -> "tie_breaker"
      [] method = "addFunction" -> "functions"
      [] method = "randomScore" -> "random_score"
      [] method = "fieldValueFactor" -> "field_value_factor"
      [] method = "scriptScore" -> "script_score"
      [] OTHER -> method

\* every option the receiver had, other than the one being set, is kept
OthersKept(key) ==
    \A k \in KeySet(OptionsOf(last.before)) \ {key} :
        Get(OptionsOf(Result), k) = Get(OptionsOf(last.before), k)

TextKinds == {"QueryStringQuery", "SimpleQueryStringQuery", "MoreLikeThisQuery",
              "MatchPhrasePrefixQuery", "TermsSetQuery"}

\* C4: an option mutator of a text query returns an instance that serializes
\* with the option at the given value and with the earlier options kept.
C4_OptionIsSetAndOthersKept ==
    (MutatorReturned /\ last.before.kind \in TextKinds) =>
        LET key == OptionKey(last.method)
            given == last.args[1]
            expected ==
                IF last.method = "addTerms"
                THEN Concat(Get(OptionsOf(last.before), "terms"), Arr(last.args))
                ELSE IF last.before.kind = "MoreLikeThisQuery" /\ last.method = "fields"
                THEN AsArray(given)
                ELSE given
        IN /\ Get(OptionsOf(Result), key) = expected
           /\ OthersKept(key)

WrapperKinds == {"BoostingQuery", "ConstantScoreQuery", "NestedQuery",
                 "ScriptScoreQuery", "FunctionScoreQuery", "DisMaxQuery"}

\* C5: a sub-query mutator returns an instance that holds the serialized body
\* of the query passed in, in place of the previous one (appended to the
\* list for dis_max.query and addQueries); the receiver keeps what it had.
C5_SubQueryIsTaken ==
    (MutatorReturned /\ last.before.kind \in WrapperKinds /\ Len(last.subs) > 0) =>
        LET given == toJSON(instances[last.subs[1]])
            was == OptionsOf(last.before)
            now == OptionsOf(Result)
        IN /\ IF last.before.kind = "DisMaxQuery"
              THEN Get(now, "queries") =
                       IF last.method = "queries" THEN Arr(<<given>>)
                       ELSE Concat(Get(was, "queries"), Arr(<<given>>))
              ELSE Get(now, last.method) = given
           /\ toJSON(Receiver) = toJSON(last.before)

ScalarMethods == {"scoreMode", "boost", "ignoreUnmapped", "innerHits", "minScore",
                  "addFunction", "functions", "maxBoost", "boostMode", "randomScore",
                  "fieldValueFactor", "scriptScore", "tieBreaker"}

\* C6: a scalar or configuration mutator of nested, script_score,
\* function_score or dis_max returns an instance that serializes with the
\* option at the given value, the sub-query and the earlier options kept.
C6_ScalarOptionIsSetAndRestKept ==
    (/\ MutatorReturned
     /\ last.before.kind \in WrapperKinds \ {"BoostingQuery", "ConstantScoreQuery"}
     /\ last.method \in ScalarMethods) =>
        LET key == OptionKey(last.method)
            was == OptionsOf(last.before)
            expected ==
                CASE last.method = "addFunction" ->
                        Concat(OrElse(Get(was, "functions"), Arr(<<>>)), Arr(last.args))
                  [] last.method = "randomScore" ->
                        Config(<< <<"seed", last.args[1]>>, <<"field", last.args[2]>> >>)
                  [] last.method = "fieldValueFactor" ->
                        Config(<< <<"field", last.args[1]>>, <<"factor", last.args[2]>>,
                                  <<"modifier", last.args[3]>>, <<"missing", last.args[4]>> >>)
                  [] last.method = "scriptScore" -> Obj1("script", last.args[1])
                  [] OTHER -> last.args[1]
        IN /\ Get(OptionsOf(Result), key) = expected
           /\ OthersKept(key)

RatioOutOfRange(v) == Tag(v) = "number" /\ (v[2] < 0 \/ v[2] > 10)
RatioInRange(v) == Tag(v) = "number" /\ 0 <= v[2] /\ v[2] <= 10

\* C7: constructing a boosting query with a ratio outside [0,1] raises an
\* error and yields no instance.
C7_ConstructorRejectsRatioOutOfRange ==
    (last.method = "Q.boosting" /\ RatioOutOfRange(last.args[1])) =>
        last.threw /\ last.result = 0

\* C8: negativeBoost(v) and tieBreaker(v) with v < 0 or v > 1 raise an error,
\* return no instance and leave every instance, the receiver with its body
\* and metadata included, as it was.
C8_MutatorRejectsRatioOutOfRange ==
    [][(last'.method \in {"negativeBoost", "tieBreaker"} /\ RatioOutOfRange(last'.args[1]))
          => /\ last'.threw
             /\ last'.result = 0
             /\ instances' = instances
             /\ queryIdCounter' = queryIdCounter
             /\ created' = created]_vars

\* tieBreaker(1.5) was called on a dis_max query, and threw
C8_Witness ==
    /\ last.method = "tieBreaker"
    /\ last.args[1] = Num(15)
    /\ last.recv # 0
    /\ last.threw

\* C9: negativeBoost(v) with 0 <= v <= 1 returns an instance whose
\* getNegativeBoost() and serialized negative_boost are v.
C9_RatioInRangeIsStored ==
    (last.method = "negativeBoost" /\ RatioInRange(last.args[1])) =>
        /\ ~last.threw
        /\ last.result # 0
        /\ BoostingQuery_getNegativeBoost(Result) = last.args[1]
        /\ Get(Get(toJSON(Result), "boosting"), "negative_boost") = last.args[1]

\* C10: equals() is deep equality of the serialized bodies, the order of a
\* mapping's keys being irrelevant.
C10_EqualsIsDeepEquality ==
    \A i, j \in Receivers :
        equals(instances[i], instances[j])
            <=> DeepEqual(toJSON(instances[i]), toJSON(instances[j]))

\* the calls that built instance i: the constructor call, then the mutator
\* calls in order, each with its arguments and the bodies of its query arguments
RECURSIVE HistoryOf(_)
HistoryOf(i) ==
    LET step == <<calls[i].method, calls[i].args, calls[i].snaps>>
    IN IF calls[i].recv = 0 THEN <<step>>
       ELSE Append(HistoryOf(calls[i].recv), step)

\* C11: two instances built by the same constructor call followed by the
\* same mutator calls with the same arguments are equal, in both directions,
\* and have different ids.
C11_TwinsAreEqualAndDistinct ==
    \A i, j \in 1..Len(calls) :
        (i # j /\ HistoryOf(i) = HistoryOf(j)) =>
            /\ equals(instances[i], instances[j])
            /\ equals(instances[j], instances[i])
            /\ instances[i].id # instances[j].id

\* two chains of a constructor call and a mutator call, on different
\* receivers, made the same way
C11_Witness ==
    \E i, j \in 1..Len(calls) :
        /\ i # j
        /\ calls[i].recv # 0
        /\ calls[j].recv # 0
        /\ calls[i].recv # calls[j].recv
        /\ HistoryOf(i) = HistoryOf(j)

\* the step leaves every object and the id counter as they were, and the
\* call returned its receiver
ReturnedReceiver ==
    /\ last'.result = last'.recv
    /\ ~last'.threw
    /\ instances' = instances
    /\ queryIdCounter' = queryIdCounter
    /\ created' = created

\* the step is what a direct call fn(q) on the receiver does
ReturnedWhatFnReturns(fn) ==
    LET q == instances[last'.recv]
        res == Apply(fn, q)
    IN IF res.fresh
       THEN /\ last'.result = Len(instances) + 1
            /\ Len(instances') = Len(instances) + 1
            /\ SubSeq(instances', 1, Len(instances)) = instances
            /\ instances'[last'.result]._body = res._body
            /\ instances'[last'.result].kind = res.kind
            /\ instances'[last'.result].id = queryIdCounter + res.used
       ELSE ReturnedReceiver

\* C12: when(c, fn) returns the receiver itself, fn not called, for a falsy
\* c, and what fn(q) returns for a truthy c; unless(c, fn) does the reverse.
C12_WhenAndUnless ==
    [][last'.method \in {"when", "unless"} =>
          LET c == last'.args[1]
              fn == last'.args[2][2]
              falsy == \/ c \in {Bool(FALSE), Null, Undef}
                       \/ c = Num(0)
                       \/ c = Str("")
              applies == IF last'.method = "when" THEN ~falsy ELSE falsy
          IN IF applies THEN ReturnedWhatFnReturns(fn) ELSE ReturnedReceiver]_vars

\* when(0, q => q.boost(2)) returned its receiver
C12_Witness ==
    /\ last.method = "when"
    /\ last.args = <<Num(0), Str("q => q.boost(2)")>>
    /\ last.result = last.recv
    /\ last.recv # 0

\* the instance serializes as it did when it was built
SerializesAsBuilt(i) == toJSON(instances[i]) = calls[i].json

\* C13: no write through a reference that an accessor returned changes what
\* the instance's toJSON() returns.
C13_BodyIsReadOnly ==
    \A i \in Receivers : SerializesAsBuilt(i)

\* the step is a write through a reference the caller got in the given way
WroteThrough(origin) ==
    /\ last'.method = "write"
    /\ held' # held
    /\ held[last'.args[1]].origin = origin

\* the step leaves the serialization of every instance as it was
NothingChanged ==
    /\ Len(instances') = Len(instances)
    /\ \A i \in Receivers : toJSON(instances'[i]) = toJSON(instances[i])

\* C14: a write at any depth into a value that toJSON() returned changes the
\* toJSON() of no instance, and the value toJSON() returns is deeply equal to
\* what the next toJSON() call on the instance returns.
C14_ToJSONReturnsAFreshCopy ==
    [][/\ WroteThrough("toJSON") => NothingChanged
       /\ (last'.method = "toJSON" /\ held' # held) =>
              /\ NothingChanged
              /\ DeepEqual(held'[Len(held')].value, toJSON(instances'[last'.recv]))]_vars

\* the caller wrote below the top of a value that toJSON() returned, and the
\* instance serializes to what the value was before the write
C14_Witness ==
    /\ last.method = "write"
    /\ Len(last.args[2]) >= 2
    /\ held[last.args[1]].origin = "toJSON"
    /\ toJSON(instances[held[last.args[1]].of]) # held[last.args[1]].value
    /\ SerializesAsBuilt(held[last.args[1]].of)

TermLikeTop ==
    [TermQuery |-> "term", MatchQuery |-> "match", MatchPhraseQuery |-> "match_phrase",
     WildcardQuery |-> "wildcard", PrefixQuery |-> "prefix", FuzzyQuery |-> "fuzzy",
     RegexpQuery |-> "regexp"]

\* the key under which the expanded form holds the value the query was built with
BaseKey(kind) == IF kind \in {"MatchQuery", "MatchPhraseQuery"} THEN "query" ELSE "value"

\* the key an option mutator writes
LikeOptionKey(method) ==
    CASE method = "caseInsensitive" -> "case_insensitive"
      [] OTHER -> method

\* { field: value } of a term-like instance
FieldEntry(q) == FirstEntry(Get(q._body, TermLikeTop[q.kind]))

\* C16: an option mutator of a term-like query turns a scalar value into
\* the object holding that value under value (query for the match kinds)
\* plus the option, and on an expanded value keeps the base value and every
\* option set earlier, adding or overwriting only its own key.
C16_ShorthandPromotion ==
    (MutatorReturned /\ last.before.kind \in DOMAIN TermLikeTop) =>
        LET old == FieldEntry(last.before)
            new == FieldEntry(Result)
            key == LikeOptionKey(last.method)
            base == BaseKey(last.before.kind)
        IN /\ Result.kind = last.before.kind
           /\ KeySet(Result._body) = {TermLikeTop[Result.kind]}
           /\ Len(Get(Result._body, TermLikeTop[Result.kind])[2]) = 1
           /\ new[1] = old[1]
           /\ IsObj(new[2])
           /\ Get(new[2], key) = last.args[1]
           /\ IF IsObj(old[2])
              THEN /\ KeySet(new[2]) = KeySet(old[2]) \cup {key}
                   /\ \A k \in KeySet(old[2]) \ {key} : Get(new[2], k) = Get(old[2], k)
              ELSE /\ KeySet(new[2]) = {base, key}
                   /\ Get(new[2], base) = old[2]

\* a second option mutator has returned: the value holds the base value and
\* two options
C16_Witness ==
    /\ MutatorReturned
    /\ last.before.kind \in DOMAIN TermLikeTop \ {"TermQuery"}
    /\ IsObj(FieldEntry(last.before)[2])
    /\ Cardinality(KeySet(FieldEntry(Result)[2])) = 3

ClauseMethods == {"must", "should", "filter", "mustNot"}
SlotOf(method) == IF method = "mustNot" THEN "must_not" ELSE method
\* the clauses of a slot; none when the slot is absent
Clauses(q, slot) ==
    LET v == Get(Get(q._body, "bool"), slot) IN IF IsArr(v) THEN v[2] ELSE <<>>

\* C17: must, should, filter and mustNot append the serialized argument
\* queries, in order, to the end of their own slot; every other key of the
\* bool object is as in the receiver, and the clause counts of the result
\* are the receiver's plus the number of queries added to that slot.
C17_ClausesAreAppendedToOwnSlot ==
    (MutatorReturned /\ last.before.kind = "BoolQuery" /\ last.method \in ClauseMethods) =>
        LET slot == SlotOf(last.method)
            old == Get(last.before._body, "bool")
            new == Get(Result._body, "bool")
            added == calls[last.result].snaps
            before == BoolQuery_getClauseCounts(last.before)
            after == BoolQuery_getClauseCounts(Result)
        IN /\ Result.kind = "BoolQuery"
           /\ KeySet(Result._body) = {"bool"}
           /\ IsArr(Get(new, slot))
           /\ Get(new, slot)[2] = Clauses(last.before, slot) \o added
           /\ KeySet(new) = KeySet(old) \cup {slot}
           /\ \A k \in KeySet(old) \ {slot} : Get(new, k) = Get(old, k)
           /\ \A m \in ClauseMethods :
                  after[m] = before[m] + (IF m = last.method THEN Len(added) ELSE 0)

\* the same query was appended a second time to a slot
C17_Witness ==
    /\ MutatorReturned
    /\ last.before.kind = "BoolQuery"
    /\ last.method \in ClauseMethods
    /\ Len(last.subs) = 1
    /\ LET slot == SlotOf(last.method)
       IN /\ Len(Clauses(Result, slot)) = 2
          /\ Clauses(Result, slot)[1] = Clauses(Result, slot)[2]

\* each of the four slots is absent or an empty array
NoClauses(q) ==
    \A slot \in {"must", "should", "filter", "must_not"} :
        \/ ~Has(Get(q._body, "bool"), slot)
        \/ Get(Get(q._body, "bool"), slot) = Arr(<<>>)

\* C18: isEmpty() of a bool instance is true exactly when each of its four
\* slots is absent or an empty array; Q.isEmpty(q) is q.isEmpty() for a bool
\* instance and false for any other.
C18_IsEmpty ==
    \A i \in Receivers :
        IF instances[i].kind = "BoolQuery"
        THEN /\ BoolQuery_isEmpty(instances[i]) <=> NoClauses(instances[i])
             /\ Q_isEmpty(instances[i]) <=> BoolQuery_isEmpty(instances[i])
        ELSE ~Q_isEmpty(instances[i])

\* the caller holds a bool instance with a boost and an empty must array
C18_Witness ==
    \E i \in OfKind("BoolQuery") :
        /\ Has(Get(instances[i]._body, "bool"), "boost")
        /\ Get(Get(instances[i]._body, "bool"), "must") = Arr(<<>>)

BoundMethods == {"gte", "gt", "lte", "lt"}

\* { gte, gt, ... } of a range instance
RangeOf(q) == FirstEntry(Get(q._body, "range"))[2]

\* the argument of the last call of a method in a history, if any
RECURSIVE LastCall(_, _)
LastCall(hist, method) ==
    IF Len(hist) = 0 THEN <<>>
    ELSE IF hist[Len(hist)][1] = method THEN <<hist[Len(hist)][2][1]>>
    ELSE LastCall(SubSeq(hist, 1, Len(hist) - 1), method)

\* C19: after any sequence of gte, gt, lte and lt on a range query, each of
\* the four keys of the newest query holds the argument of the last call of its mutator, or is
\* unset when the mutator was never called; no call is rejected, whatever
\* the other bounds are.
C19_BoundsAreIndependent ==
    /\ last.method \in BoundMethods => ~last.threw
    /\ \A i \in OfKind("RangeQuery") \cap {Len(instances)} :
           LET hist == HistoryOf(i)
           IN (\A s \in 1..Len(hist) : hist[s][1] \in BoundMethods \cup {"Q.range"}) =>
                 /\ KeySet(RangeOf(instances[i])) \subseteq BoundMethods
                 /\ \A m \in BoundMethods :
                        IF LastCall(hist, m) = <<>>
                        THEN ~Has(RangeOf(instances[i]), m)
                        ELSE Get(RangeOf(instances[i]), m) = LastCall(hist, m)[1]

\* all four bounds are set, gte was set twice, and the lower bounds are
\* above the upper bound lt
C19_Witness ==
    \E i \in OfKind("RangeQuery") :
        /\ KeySet(RangeOf(instances[i])) = BoundMethods
        /\ Get(RangeOf(instances[i]), "gte") = Num(20)
        /\ Get(RangeOf(instances[i]), "lt") = Num(10)

\* C20: between(min, max, inclusive) sets gte and lte when inclusive is true
\* or omitted, gt and lt when it is false; every other key of the range,
\* the other pair of bounds included, is as in the receiver.
C20_Between ==
    (MutatorReturned /\ last.method = "between") =>
        LET old == RangeOf(last.before)
            new == RangeOf(Result)
            inclusive == last.args[3] \in {Undef, Bool(TRUE)}
            lower == IF inclusive THEN "gte" ELSE "gt"
            upper == IF inclusive THEN "lte" ELSE "lt"
        IN /\ FirstEntry(Get(Result._body, "range"))[1]
                 = FirstEntry(Get(last.before._body, "range"))[1]
           /\ Get(new, lower) = last.args[1]
           /\ Get(new, upper) = last.args[2]
           /\ KeySet(new) = KeySet(old) \cup {lower, upper}
           /\ \A k \in KeySet(old) \ {lower, upper} : Get(new, k) = Get(old, k)

\* between(10, 20, false) on a receiver that had gte and a boost
C20_Witness ==
    /\ MutatorReturned
    /\ last.method = "between"
    /\ last.args[3] = Bool(FALSE)
    /\ {"gte", "boost"} \subseteq KeySet(RangeOf(last.before))
    /\ KeySet(RangeOf(Result)) = {"gte", "boost", "gt", "lt"}

\* the keys of an object that JSON.stringify writes
SerializedKeys(o) == {k \in KeySet(o) : Tag(Get(o, k)) # "undefined"}

\* C21: hasBounds() of a range query is true exactly when one of gte, gt,
\* lte, lt is set in its serialized body; it is false for a fresh range(field).
C21_HasBounds ==
    /\ \A i \in OfKind("RangeQuery") :
           RangeQuery_hasBounds(instances[i])
               <=> SerializedKeys(FirstEntry(Get(toJSON(instances[i]), "range"))[2])
                     \cap BoundMethods # {}
    /\ last.method = "Q.range" => ~RangeQuery_hasBounds(Result)

\* a range with a boost and a format and no bound
C21_Witness ==
    \E i \in OfKind("RangeQuery") :
        /\ KeySet(RangeOf(instances[i])) = {"boost", "format"}
        /\ ~RangeQuery_hasBounds(instances[i])

\* the members of a list
Members(seq) == {seq[i] : i \in 1..Len(seq)}

\* C22: Q.validate(q) does not throw; valid is true exactly when errors is
\* empty; 'Bool query has no clauses' is reported exactly for a bool query
\* that isEmpty(), 'Range query has no bounds set' exactly for a range query
\* without bounds, and nothing else is ever reported.
C22_Validate ==
    \A i \in Receivers :
        LET q == instances[i]
            res == Q_validate(q)
        IN /\ ~res.threw
           /\ res.valid <=> res.errors = <<>>
           /\ "Bool query has no clauses" \in Members(res.errors)
                 <=> (q.kind = "BoolQuery" /\ NoClauses(q))
           /\ "Range query has no bounds set" \in Members(res.errors)
                 <=> (q.kind = "RangeQuery"
                        /\ SerializedKeys(RangeOf(q)) \cap BoundMethods = {})
           /\ Members(res.errors) \subseteq
                 {"Bool query has no clauses", "Range query has no bounds set"}
           /\ Len(res.errors) <= 1

\* an empty bool with a boost and a range with only a boost are both
\* invalid, next to a term query that is valid
C22_Witness ==
    /\ \E i \in OfKind("BoolQuery") :
           /\ Has(Get(instances[i]._body, "bool"), "boost")
           /\ Q_validate(instances[i]).errors = <<"Bool query has no clauses">>
    /\ \E i \in OfKind("RangeQuery") :
           Q_validate(instances[i]).errors = <<"Range query has no bounds set">>

Combinators == {"Q.and", "Q.or", "Q.not", "Q.filter", "Q.must", "Q.should"}

CombinatorSlot(method) ==
    CASE method \in {"Q.and", "Q.must"} -> "must"
      [] method \in {"Q.or", "Q.should"} -> "should"
      [] method = "Q.filter" -> "filter"
      [] method = "Q.not" -> "must_not"

\* C23: Q.and / Q.must (must), Q.or / Q.should (should), Q.filter (filter)
\* and Q.not (must_not) return a new bool query whose body has that one slot
\* and nothing else, holding the serialized arguments in argument order; no
\* existing instance changes.
C23_Combinators ==
    [][last'.method \in Combinators =>
          /\ ~last'.threw
          /\ SubSeq(instances', 1, Len(instances)) = instances
          /\ last'.result = Len(instances) + 1
          /\ instances'[last'.result].kind = "BoolQuery"
          /\ instances'[last'.result]._body =
                Obj1("bool", Obj1(CombinatorSlot(last'.method),
                     Arr(Tuple([i \in 1..Len(last'.subs) |->
                                   toJSON(instances[last'.subs[i]])]))))]_vars

\* Q.or(a, b) of two different queries, b built before a
C23_Witness ==
    /\ last.method = "Q.or"
    /\ ~last.threw
    /\ Len(last.subs) = 2
    /\ last.subs[1] > last.subs[2]
    /\ toJSON(instances[last.subs[1]]) # toJSON(instances[last.subs[2]])
    /\ Length(Get(Get(Result._body, "bool"), "should")) = 2

\* the greatest member of a set of numbers, 0 for none
Greatest(S) == IF S = {} THEN 0 ELSE CHOOSE n \in S : \A m \in S : m <= n

\* the number of query levels of a serialized body: one for a leaf query,
\* one more than its deepest clause for a bool query
RECURSIVE Levels(_)
Levels(json) ==
    IF Has(json, "bool")
    THEN 1 + Greatest({Levels(c) : c \in UNION {Elements(Get(Get(json, "bool"), slot)) :
                                       slot \in {"must", "should", "filter", "must_not"}}})
    ELSE 1

\* C24: no body contains itself.  A clause mutator given its own receiver
\* stores the body the receiver had before the call and leaves the receiver
\* as it was; the result is one level deeper than its deepest argument (or
\* as deep as the receiver, if that is more); every instance has at most as
\* many levels as instances were built up to it, and serializes and compares
\* equal to itself.
C24_NoBodyContainsItself ==
    /\ \A i \in Receivers :
           /\ Levels(toJSON(instances[i])) <= i
           /\ toJSON(instances[i]) = calls[i].json
           /\ equals(instances[i], instances[i])
    /\ (MutatorReturned /\ last.before.kind = "BoolQuery" /\ last.method \in ClauseMethods) =>
           LET slot == SlotOf(last.method)
               new == Clauses(Result, slot)
               old == Len(Clauses(last.before, slot))
           IN /\ Len(new) = old + Len(last.subs)
              /\ instances[last.recv] = last.before
              /\ \A k \in 1..Len(last.subs) :
                     last.subs[k] = last.recv => new[old + k] = toJSON(last.before)
              /\ Levels(toJSON(Result)) =
                     Greatest({Levels(toJSON(last.before))}
                              \cup {1 + Levels(toJSON(instances[s])) :
                                       s \in Members(last.subs)})

\* b2 = b.must(b), then b2.should(b2): three levels from one bool query
C24_Witness ==
    /\ MutatorReturned
    /\ last.method \in ClauseMethods
    /\ last.subs = <<last.recv>>
    /\ calls[last.recv].subs = <<calls[last.recv].recv>>
    /\ Levels(toJSON(Result)) = 3

\* a query standing for an argument whose serialized body was json
Standing(json) == [kind |-> "Query", _body |-> json, operations |-> <<>>, id |-> 0]

\* one call of a history, made on the object q
RunStep(q, step) ==
    LET method == step[1]
        args == step[2]
        snaps == step[3]
    IN CASE method = "Q.term" -> TermQuery_constructor(args[1][2], args[2])
         [] method = "Q.bool" -> BoolQuery_constructor(EmptyObj)
         [] method = "boost" /\ q.kind = "TermQuery" -> TermQuery_boost(q, args[1])
         [] method = "boost" /\ q.kind = "BoolQuery" -> BoolQuery_boost(q, args[1])
         [] method = "caseInsensitive" -> TermQuery_caseInsensitive(q, args[1])
         [] method = "must" ->
               BoolQuery_must(q, Tuple([k \in 1..Len(snaps) |-> Standing(snaps[k])]))

\* what a task gets that makes the calls of a history one after the other,
\* with nothing else running
RECURSIVE RunAlone(_)
RunAlone(hist) ==
    IF Len(hist) = 1 THEN RunStep(NoInstance, hist[1])
    ELSE RunStep(RunAlone(SubSeq(hist, 1, Len(hist) - 1)), hist[Len(hist)])

\* C25: whatever calls other chains make in between, on the same instances,
\* the instance a call returns has the kind and the body that its own chain
\* of calls gives when run alone, a toJSON() read returns that body, and no
\* instance built earlier, by this chain or another, has changed.
C25_TasksDoNotInterfere ==
    /\ \A i \in Receivers : toJSON(instances[i]) = calls[i].json
    /\ last.result # 0 =>
           LET alone == RunAlone(HistoryOf(last.result))
           IN /\ Result.kind = alone.kind
              /\ Result._body = alone._body
    /\ last.method = "toJSON" =>
           held[Len(held)].value = RunAlone(HistoryOf(last.recv))._body

\* two chains start from instance 1; the first makes a call, the second
\* makes a call, then the first goes on
C25_Witness ==
    /\ Len(calls) = 4
    /\ calls[2].recv = 1
    /\ calls[3].recv = 1
    /\ calls[4].recv = 2
    /\ calls[2].json # calls[3].json
    /\ calls[4].json # calls[2].json

\* C26: Q.exists(field) returns an exists query that serializes as
\* { exists: { field } }, and a bool filter that embeds it stores that body.
C26_ExistsIsAnExistsQuery ==
    /\ last.method = "Q.exists" =>
           /\ ~last.threw
           /\ Result.kind = "ExistsQuery"
           /\ toJSON(Result) = Obj1("exists", Obj1("field", last.args[1]))
    /\ (MutatorReturned /\ last.method = "filter"
           /\ calls[last.subs[1]].method = "Q.exists") =>
           LET clauses == Clauses(Result, "filter")
           IN clauses[Len(clauses)]
                 = Obj1("exists", Obj1("field", calls[last.subs[1]].args[1]))

ScalarSetters == {"boost", "gte", "gt", "lte", "lt", "minimumShouldMatch"}

\* instances[i] is q.m(a).m(b) and instances[j] is q.m(b), for one query q
SetTwiceAndOnce(i, j) ==
    LET p == calls[i].recv
    IN /\ p # 0
       /\ calls[p].recv # 0
       /\ calls[i].method \in ScalarSetters
       /\ calls[p].method = calls[i].method
       /\ calls[j].recv = calls[p].recv
       /\ calls[j].method = calls[i].method
       /\ calls[j].args = calls[i].args

\* C27: for the scalar setters of term, range and bool queries,
\* q.m(a).m(b) serializes as q.m(b) does, key order included; with a = b
\* this makes q.m(a).m(a) serialize as q.m(a).  Each pair is compared when
\* the later of the two is built.
C27_LastWriteWins ==
    \A i, j \in Receivers :
        (Len(instances) \in {i, j} /\ SetTwiceAndOnce(i, j)) =>
            /\ toJSON(instances[i]) = toJSON(instances[j])
            /\ stringify(toJSON(instances[i])) = stringify(toJSON(instances[j]))

\* q.boost(a).boost(-1) and q.boost(-1) with a # -1
C27_Witness ==
    \E i, j \in Receivers :
        /\ SetTwiceAndOnce(i, j)
        /\ i # j
        /\ calls[i].args = <<Num(0 - 10)>>
        /\ calls[calls[i].recv].args # calls[i].args

\* C28: boost(v) on a constant_score query returns an instance whose
\* getBoost() is v, or undefined (no boost key) when v is 1.0, whatever boost
\* the receiver had; the filter is the receiver's.
C28_ConstantScoreBoost ==
    (MutatorReturned /\ last.before.kind = "ConstantScoreQuery" /\ last.method = "boost") =>
        /\ ConstantScoreQuery_getBoost(Result)
              = (IF last.args[1] = Num(10) THEN Undef ELSE last.args[1])
        /\ last.args[1] = Num(10) => ~Has(Get(Result._body, "constant_score"), "boost")
        /\ ConstantScoreQuery_getFilter(Result) = ConstantScoreQuery_getFilter(last.before)

\* C29: on a terms query, boost(b) keeps the term list, and addTerms(t...)
\* appends t after the current terms, in order, and keeps the boost the
\* receiver had.
C29_TermsMutatorsCompose ==
    (MutatorReturned /\ last.before.kind = "TermsQuery") =>
        /\ last.method = "boost" =>
               /\ TermsQuery_getTerms(Result) = TermsQuery_getTerms(last.before)
               /\ TermsQuery_getBoost(Result) = last.args[1]
        /\ last.method = "addTerms" =>
               /\ TermsQuery_getTerms(Result)
                     = Concat(TermsQuery_getTerms(last.before), Arr(last.args))
               /\ TermsQuery_getBoost(Result) = TermsQuery_getBoost(last.before)

\* C30: term(f, v).getValue() is v for a value v of any type, and
\* term(f, v).boost(b) serializes as { term: { f: { value: v, boost: b } } }
\* with getValue() still v.
C30_TermValueIsKept ==
    /\ (last.method = "Q.term" /\ ~last.threw) =>
           TermQuery_getValue(Result) = last.args[2]
    /\ (MutatorReturned /\ last.method = "boost" /\ calls[last.recv].method = "Q.term") =>
           LET f == calls[last.recv].args[1][2]
               v == calls[last.recv].args[2]
           IN /\ toJSON(Result)
                    = Obj1("term", Obj1(f, Obj(<< <<"value", v>>, <<"boost", last.args[1]>> >>)))
              /\ TermQuery_getValue(Result) = v

====
